---------------------------- MODULE Spec2Model ----------------------------
(***************************************************************************)
(* Model of chainquest-idle's multiplayer transport layer                  *)
(* (src/src/multiplayer/network.rs, client.rs, src/src/server/main.rs).    *)
(*                                                                         *)
(* Time is a discrete monotonic clock (Instant::now()); one second is      *)
(* TicksPerSecond ticks.  The ENet host is the environment: it owns the    *)
(* set of connected peers, and at each poll it has a sequence of events    *)
(* ready that host.service() hands out one at a time.                      *)
(***************************************************************************)
EXTENDS Integers, Sequences, FiniteSets, TLC

\* ------------------------------------------------------------------ bounds
PeerIds == {1, 2}          \* peer ids the transport may hand out
MaxTime == 2               \* the clock stops here
MaxPending == 2            \* events the transport has ready at one poll
MaxSends == 2              \* send_packet is called at most MaxSends times
MaxReceived == 2           \* cap on stats.packets_received
PlayerIds == {1, 2}        \* player ids the validators are called with
MaxAdvances == 2           \* the wall clock advances at most MaxAdvances times
MaxActionsCounted == 12    \* cap on actions_per_second
MaxSuspicion == 12         \* cap on suspicious_activity_count
MaxPairActions == 2        \* cap on actions_per_second, two players at once
MaxPairSuspicion == 6      \* cap on suspicious_activity_count, two players
MaxPayloadLen == 10000     \* the longest payload put through the wire transform
MaxTrail == 4              \* operations on the IdleProgress of the player
MaxTiles == 1              \* cells of a generated grid that got another tile than 0
MaxMaps == 3               \* generate_map is called at most MaxMaps times
Seeds == {1, 2}            \* the seeds generate_map is called with

\* ------------------------------------------------------- program constants
TicksPerSecond == 2        \* Duration::from_secs(1), in ticks
DefaultMaxPackets == 10    \* max_packets_per_second of a new peer
CompressThreshold == 100   \* send: compress when data.len() > 100
DecompressMinLen == 4      \* receive: look for the magic when data.len() > 4
GzMagic0 == 31             \* 0x1f
GzMagic1 == 139            \* 0x8b
MaxActionsPerSecond == 10        \* ValidationConfig.max_actions_per_second
MinTimeBetweenQuests == 5        \* ValidationConfig.min_time_between_quests
MaxResourceGainPerAction == 1000 \* ValidationConfig.max_resource_gain_per_action
MaxLevelJumps == 5               \* ValidationConfig.max_level_jumps
SuspiciousThreshold == 10        \* ValidationConfig.suspicious_threshold
LevelJumpPenalty == 5            \* validate_level_up: += 5
CleanupAge == 3600               \* security_cleanup: 1 hour
BootTime == 1700000000           \* get_current_timestamp() when the app starts

VARIABLES
    host,                  \* NetworkManager.host: "None" or "Some"
    hostPeers,             \* the peers the ENet host knows (host.peer(id) is Some)
    peer_rate_limits,      \* NetworkManager.peer_rate_limits: peer -> RateLimit
    compression_enabled,   \* NetworkManager.compression_enabled
    stats,                 \* NetworkManager.stats
    now,                   \* Instant::now()
    client,                \* the client role: NetState.connected, NetClient.peer
    lifecycle,             \* history: the peers whose most recent lifecycle
                           \*   event, as the transport delivered them, is Connect
    accepted,              \* history: per peer, sends the limiter accepted at
                           \*   each of the last TicksPerSecond+1 ticks
    sends,                 \* history: the number of send_packet calls so far
    last,                  \* history: the operation that produced this state
    player_actions,        \* SecurityManager.player_actions: player ->
                           \*   PlayerActionHistory
    timestamp,             \* get_current_timestamp(): the wall clock, seconds
    advances,              \* history: the number of times the wall clock moved
    approved_quest,        \* history: per player, the time of the last quest
                           \*   completion that was Approved (0: none yet)
    verdict,               \* history: the SecurityManager operation that
                           \*   produced this state, and what it returned
    last_call,             \* history: player -> the time of the last validate_*
                           \*   call made for the player, 0 before the first
    lock,                  \* the threads that hold a guard of the RwLock around
                           \*   player_actions
    calls,                 \* thread -> the SecurityManager call it is in
    progress,              \* the IdleProgress component of the player entity
    trail,                 \* history: the operations on progress since the
                           \*   entity was spawned
    slot,                  \* the rows of the table progress of chainquest.db
    saved,                 \* history: the progress of the most recent
                           \*   save_progress that returned Ok, <<>> before it
    cache,                 \* MapGenerator.cache: seed -> grid
    model,                 \* MapGenerator.model: "None" or "Some"
    generation_stats,      \* MapGenerator.generation_stats
    ret                    \* history: what the last operation on the game
                           \*   state was and what it returned

netVars == <<host, hostPeers, peer_rate_limits, compression_enabled,
             stats, now, client, lifecycle, accepted, sends, last>>

secVars == <<player_actions, timestamp, advances, approved_quest, verdict,
             last_call>>

conVars == <<lock, calls>>

gameVars == <<progress, trail, slot, saved, cache, model, generation_stats, ret>>

vars == <<netVars, secVars, conVars, gameVars>>

\* ------------------------------------------------------------- byte strings
Min(a, b) == IF a <= b THEN a ELSE b

Repeat(b, n) == [i \in 1..n |-> b]

\* serde_json's encoding of GameMessage::Ping is the JSON string "Ping"
PingBytes == <<34, 80, 105, 110, 103, 34>>
\* a truncated JSON object: {"Chat"
MalformedBytes == <<123, 34, 67, 104, 97, 116, 34>>
\* 101 bytes, the shortest payload send_packet compresses
BigPayload == Repeat(120, CompressThreshold + 1)

\* ------------------------------------------------------------ Result values
Ok(v) == [ok |-> TRUE, val |-> v]
Err(e) == [ok |-> FALSE, val |-> e]

\* --------------------------------------------------------- CompressionCodec
\* gzip is modelled as a frame around a run-length coder: the 10-byte header
\* (magic, CM = 8, FLG = 0, MTIME = 0, XFL = 4, OS = 255), the coded body, and
\* the 8-byte trailer (a checksum of the payload and its length, 4 bytes each,
\* little-endian).
GzHeader == <<GzMagic0, GzMagic1, 8, 0, 0, 0, 0, 0, 4, 255>>

LE32(n) == << n % 256, (n \div 256) % 256, (n \div 65536) % 256,
              (n \div 16777216) % 256 >>

\* the sum of the bytes lo..hi of d
RECURSIVE SumRange(_, _, _)
SumRange(d, lo, hi) ==
    IF lo > hi THEN 0
    ELSE IF lo = hi THEN d[lo]
    ELSE LET mid == (lo + hi) \div 2
         IN  SumRange(d, lo, mid) + SumRange(d, mid + 1, hi)

\* the sum of the first n bytes of d
SumBytes(d, n) == SumRange(d, 1, n)

\* payloads of the model are far shorter than 2^24 bytes
Checksum(d) == SumBytes(d, Len(d)) % 16777216

\* the longest count a pair of the coded body holds
MaxRun == 255

\* the runs of equal bytes of the bytes lo..hi of d, each <<length, byte>>
RECURSIVE Runs(_, _, _)
Runs(d, lo, hi) ==
    IF lo > hi THEN <<>>
    ELSE IF lo = hi THEN << <<1, d[lo]>> >>
    ELSE LET mid == (lo + hi) \div 2
             l == Runs(d, lo, mid)
             r == Runs(d, mid + 1, hi)
         IN  IF l[Len(l)][2] = r[1][2]
             THEN SubSeq(l, 1, Len(l) - 1)
                  \o << <<l[Len(l)][1] + r[1][1], r[1][2]>> >>
                  \o Tail(r)
             ELSE l \o r

\* the pairs of a run: full pairs of MaxRun, then the rest of the run
RunPairs(run) ==
    LET full == run[1] \div MaxRun
        rest == run[1] % MaxRun
        n == full + (IF rest > 0 THEN 1 ELSE 0)
    IN  [i \in 1..(2 * n) |->
           IF i % 2 = 0 THEN run[2]
           ELSE IF (i + 1) \div 2 <= full THEN MaxRun ELSE rest]

\* the pairs of the runs lo..hi of rs
RECURSIVE DeflateRuns(_, _, _)
DeflateRuns(rs, lo, hi) ==
    IF lo > hi THEN <<>>
    ELSE IF lo = hi THEN RunPairs(rs[lo])
    ELSE LET mid == (lo + hi) \div 2
         IN  DeflateRuns(rs, lo, mid) \o DeflateRuns(rs, mid + 1, hi)

Deflate(d) ==
    LET rs == Runs(d, 1, Len(d))
    IN  DeflateRuns(rs, 1, Len(rs))

\* the runs that the pairs lo..hi of s stand for
RECURSIVE InflateRange(_, _, _)
InflateRange(s, lo, hi) ==
    IF lo > hi THEN <<>>
    ELSE IF lo = hi THEN Repeat(s[2 * lo], s[2 * lo - 1])
    ELSE LET mid == (lo + hi) \div 2
         IN  InflateRange(s, lo, mid) \o InflateRange(s, mid + 1, hi)

\* Err on a truncated pair or an empty run
Inflate(s) ==
    IF Len(s) % 2 # 0 \/ \E k \in 1..(Len(s) \div 2) : s[2 * k - 1] = 0
    THEN Err("corrupt deflate stream")
    ELSE Ok(InflateRange(s, 1, Len(s) \div 2))

Gzip(data) ==
    Ok(GzHeader \o Deflate(data) \o LE32(Checksum(data)) \o LE32(Len(data)))

\* ---- the payloads of the wire transform
\* n bytes in blocks of k: b1 .. b1 b2 .. b2 b1 ..
Block(b1, b2, k, n) ==
    [i \in 1..n |-> IF ((i - 1) \div k) % 2 = 0 THEN b1 ELSE b2]

\* the lengths around the threshold of send_packet, 0 and a long payload
PayloadLengths ==
    {0, CompressThreshold - 1, CompressThreshold, CompressThreshold + 1,
     MaxPayloadLen}

BytePairs ==
    {<<0, 0>>, <<120, 121>>, <<GzMagic0, GzMagic1>>, <<GzMagic1, GzMagic0>>,
     <<255, 0>>, <<GzMagic0, 0>>}

\* the block sizes of the payloads of n bytes; a long payload has long runs
BlockSizes(n) == IF n > CompressThreshold + 1 THEN {250, n} ELSE {1, 3, n + 1}

\* a payload of exactly CompressThreshold bytes that is a gzip stream itself
GzOfAlternating == Gzip(Block(1, 2, 1, (CompressThreshold - 18) \div 2)).val

\* the payloads put through the transform: of every length, some that start
\* with the magic bytes, two that are gzip streams, and the first bytes of a
\* gzip header, as many as the receive side asks for, fewer, and one more
TransformPayloads ==
    UNION {{Block(b[1], b[2], k, n) : b \in BytePairs, k \in BlockSizes(n)} :
             n \in PayloadLengths}
    \cup {Gzip(PingBytes).val, GzOfAlternating}
    \cup {SubSeq(GzHeader, 1, n) : n \in 1..(DecompressMinLen + 1)}

\* the payloads the model sends, compressed once
GzipOfSendPayloads ==
    [d \in {BigPayload, PingBytes} \cup TransformPayloads |-> Gzip(d)]

compress_data(data) ==
    IF data \in DOMAIN GzipOfSendPayloads THEN GzipOfSendPayloads[data]
    ELSE Gzip(data)

decompress_data(data) ==
    IF Len(data) < Len(GzHeader) + 8
       \/ SubSeq(data, 1, 4) # SubSeq(GzHeader, 1, 4)
    THEN Err("invalid gzip header")
    ELSE LET body == Inflate(SubSeq(data, Len(GzHeader) + 1, Len(data) - 8))
             crc == SubSeq(data, Len(data) - 7, Len(data) - 4)
             isize == SubSeq(data, Len(data) - 3, Len(data))
         IN  IF ~body.ok THEN Err("Decompression finish error")
             ELSE IF crc # LE32(Checksum(body.val))
                     \/ isize # LE32(Len(body.val))
                  THEN Err("Decompression finish error")
                  ELSE Ok(body.val)

\* ------------------------------------------------------------- MessageCodec
\* A GameMessage is a record of the variant's name (tag) and the variant's
\* fields. A String is its UTF-8 bytes. A u32 or i64 is its decimal numeral,
\* the digits most significant first (an i64 with its sign): the boundary
\* values do not fit the integers of the model checker. An f32 is finite, and
\* then given by its shortest decimal text, the one serde_json writes, or it is
\* NaN or one of the infinities.
PongBytes == <<34, 80, 111, 110, 103, 34>>

\* the ASCII bytes of the names of the variants and of their fields
Name ==
    [PlayerJoin |-> <<80, 108, 97, 121, 101, 114, 74, 111, 105, 110>>,
     PlayerLeave |-> <<80, 108, 97, 121, 101, 114, 76, 101, 97, 118, 101>>,
     ResourceUpdate |-> <<82, 101, 115, 111, 117, 114, 99, 101, 85, 112, 100, 97, 116, 101>>,
     QuestComplete |-> <<81, 117, 101, 115, 116, 67, 111, 109, 112, 108, 101, 116, 101>>,
     MapGenerate |-> <<77, 97, 112, 71, 101, 110, 101, 114, 97, 116, 101>>,
     Chat |-> <<67, 104, 97, 116>>,
     Ping |-> <<80, 105, 110, 103>>,
     Pong |-> <<80, 111, 110, 103>>,
     username |-> <<117, 115, 101, 114, 110, 97, 109, 101>>,
     player_id |-> <<112, 108, 97, 121, 101, 114, 95, 105, 100>>,
     resources |-> <<114, 101, 115, 111, 117, 114, 99, 101, 115>>,
     quest_id |-> <<113, 117, 101, 115, 116, 95, 105, 100>>,
     seed |-> <<115, 101, 101, 100>>,
     message |-> <<109, 101, 115, 115, 97, 103, 101>>]

\* the fields of the variants, in the order of their declaration
Fields(tag) ==
    CASE tag = "PlayerJoin" -> <<[name |-> "username", type |-> "String"]>>
      [] tag = "PlayerLeave" -> <<[name |-> "player_id", type |-> "u32"]>>
      [] tag = "ResourceUpdate" -> <<[name |-> "player_id", type |-> "u32"],
                                     [name |-> "resources", type |-> "f32"]>>
      [] tag = "QuestComplete" -> <<[name |-> "player_id", type |-> "u32"],
                                    [name |-> "quest_id", type |-> "u32"]>>
      [] tag = "MapGenerate" -> <<[name |-> "seed", type |-> "i64"]>>
      [] tag = "Chat" -> <<[name |-> "player_id", type |-> "u32"],
                           [name |-> "message", type |-> "String"]>>
      [] OTHER -> <<>>

StructVariants ==
    {"PlayerJoin", "PlayerLeave", "ResourceUpdate", "QuestComplete",
     "MapGenerate", "Chat"}

UnitVariants == {"Ping", "Pong"}

\* u32::MAX, i64::MAX and the magnitude of i64::MIN
U32Max == <<4, 2, 9, 4, 9, 6, 7, 2, 9, 5>>
I64Max == <<9, 2, 2, 3, 3, 7, 2, 0, 3, 6, 8, 5, 4, 7, 7, 5, 8, 0, 7>>
I64MinMagnitude == <<9, 2, 2, 3, 3, 7, 2, 0, 3, 6, 8, 5, 4, 7, 7, 5, 8, 0, 8>>

Finite(text) == [class |-> "finite", text |-> text]
NaN == [class |-> "NaN", text |-> <<>>]
Infinity == [class |-> "inf", text |-> <<>>]
NegInfinity == [class |-> "-inf", text |-> <<>>]

NullBytes == <<110, 117, 108, 108>>

\* ---- serde_json::to_vec
AsciiDigits(n) == [i \in 1..Len(n) |-> 48 + n[i]]

HexDigit(n) == IF n < 10 THEN 48 + n ELSE 87 + n

\* a writer of strings that escapes nothing but the backslash
EscapeByte_backslash_only(b) == IF b = 92 THEN <<92, 92>> ELSE <<b>>

\* serde_json's escapes: \" \\ \b \f \n \r \t, \u00XX for the other control
\* characters; every other byte is written as it is
EscapeByte(b) ==
    CASE b = 34 -> <<92, 34>>
      [] b = 92 -> <<92, 92>>
      [] b = 8 -> <<92, 98>>
      [] b = 12 -> <<92, 102>>
      [] b = 10 -> <<92, 110>>
      [] b = 13 -> <<92, 114>>
      [] b = 9 -> <<92, 116>>
      [] b < 32 -> <<92, 117, 48, 48, HexDigit(b \div 16), HexDigit(b % 16)>>
      [] OTHER -> <<b>>

RECURSIVE Escape(_, _)
Escape(s, i) == IF i > Len(s) THEN <<>> ELSE EscapeByte(s[i]) \o Escape(s, i + 1)

EncodeString(s) == <<34>> \o Escape(s, 1) \o <<34>>

\* a float that is not finite is written as null
EncodeValue(type, v) ==
    CASE type = "String" -> EncodeString(v)
      [] type = "u32" -> AsciiDigits(v)
      [] type = "i64" -> (IF v.neg THEN <<45>> ELSE <<>>) \o AsciiDigits(v.digits)
      [] type = "f32" -> IF v.class = "finite" THEN v.text ELSE NullBytes

RECURSIVE EncodeFields(_, _, _)
EncodeFields(m, fs, i) ==
    EncodeString(Name[fs[i].name]) \o <<58>> \o EncodeValue(fs[i].type, m[fs[i].name])
      \o (IF i < Len(fs) THEN <<44>> \o EncodeFields(m, fs, i + 1) ELSE <<>>)

\* to_bytes: a unit variant is the JSON string of its name, a struct variant
\* the object {"Variant":{"field":value,..}}; serde_json::to_vec fails for no
\* GameMessage
to_bytes(m) ==
    IF m.tag \in UnitVariants THEN Ok(EncodeString(Name[m.tag]))
    ELSE Ok(<<123>> \o EncodeString(Name[m.tag]) \o <<58, 123>>
              \o EncodeFields(m, Fields(m.tag), 1) \o <<125, 125>>)

\* ---- serde_json::from_slice
IsJsonSpace(b) == b \in {32, 9, 10, 13}

\* the byte at i, -1 outside the input
At(d, i) == IF i >= 1 /\ i <= Len(d) THEN d[i] ELSE -1

RECURSIVE SkipWs(_, _)
SkipWs(d, i) == IF IsJsonSpace(At(d, i)) THEN SkipWs(d, i + 1) ELSE i

\* what a parser returns: the value and the index after it, or an error
Got(v, n) == [ok |-> TRUE, val |-> v, next |-> n]
Fail(e) == [ok |-> FALSE, val |-> e, next |-> 0]

StartsWith(d, i, lit) ==
    i + Len(lit) - 1 <= Len(d) /\ SubSeq(d, i, i + Len(lit) - 1) = lit

IsDigit(b) == b >= 48 /\ b <= 57

RECURSIVE DigitsEnd(_, _)
DigitsEnd(d, i) == IF IsDigit(At(d, i)) THEN DigitsEnd(d, i + 1) ELSE i

HexVal(b) ==
    CASE IsDigit(b) -> b - 48
      [] b >= 97 /\ b <= 102 -> b - 87
      [] b >= 65 /\ b <= 70 -> b - 55
      [] OTHER -> -1

\* the UTF-8 bytes of a code point of the basic plane
Utf8(c) ==
    IF c < 128 THEN <<c>>
    ELSE IF c < 2048 THEN <<192 + (c \div 64), 128 + (c % 64)>>
    ELSE <<224 + (c \div 4096), 128 + ((c \div 64) % 64), 128 + (c % 64)>>

\* the escape that starts with the backslash at i; surrogate pairs are not
\* among the inputs of the model
ParseEscape(d, i) ==
    LET e == At(d, i + 1)
    IN  CASE e \in {34, 92, 47} -> Got(<<e>>, i + 2)
          [] e = 98 -> Got(<<8>>, i + 2)
          [] e = 102 -> Got(<<12>>, i + 2)
          [] e = 110 -> Got(<<10>>, i + 2)
          [] e = 114 -> Got(<<13>>, i + 2)
          [] e = 116 -> Got(<<9>>, i + 2)
          [] e = 117 ->
               LET h == [k \in 1..4 |-> HexVal(At(d, i + 1 + k))]
                   c == ((h[1] * 16 + h[2]) * 16 + h[3]) * 16 + h[4]
               IN  IF \E k \in 1..4 : h[k] < 0 THEN Fail("invalid escape")
                   ELSE IF c >= 55296 /\ c <= 57343 THEN Fail("lone surrogate")
                   ELSE Got(Utf8(c), i + 6)
          [] OTHER -> Fail("invalid escape")

\* the string whose bytes start at i, after the opening quote
RECURSIVE StringBody(_, _, _)
StringBody(d, i, acc) ==
    LET b == At(d, i)
    IN  IF b = -1 THEN Fail("EOF while parsing a string")
        ELSE IF b = 34 THEN Got(acc, i + 1)
        ELSE IF b = 92
        THEN LET e == ParseEscape(d, i)
             IN  IF e.ok THEN StringBody(d, e.next, acc \o e.val) ELSE e
        ELSE IF b < 32 THEN Fail("control character while parsing a string")
        ELSE StringBody(d, i + 1, acc \o <<b>>)

ParseString(d, i) ==
    IF At(d, i) = 34 THEN StringBody(d, i + 1, <<>>) ELSE Fail("expected a string")

\* a JSON number: -? (0 | [1-9][0-9]*) (. [0-9]+)? ([eE] [+-]? [0-9]+)?
ParseNumber(d, i) ==
    LET neg == At(d, i) = 45
        s == IF neg THEN i + 1 ELSE i
        intEnd == DigitsEnd(d, s)
        hasFrac == At(d, intEnd) = 46
        fracEnd == IF hasFrac THEN DigitsEnd(d, intEnd + 1) ELSE intEnd
        hasExp == At(d, fracEnd) \in {101, 69}
        expStart == IF At(d, fracEnd + 1) \in {43, 45} THEN fracEnd + 2
                    ELSE fracEnd + 1
        expEnd == IF hasExp THEN DigitsEnd(d, expStart) ELSE fracEnd
    IN  IF intEnd = s THEN Fail("invalid number")
        ELSE IF d[s] = 48 /\ intEnd > s + 1 THEN Fail("invalid number")
        ELSE IF hasFrac /\ fracEnd = intEnd + 1 THEN Fail("invalid number")
        ELSE IF hasExp /\ expEnd = expStart THEN Fail("invalid number")
        ELSE Got([neg |-> neg,
                  digits |-> [k \in 1..(intEnd - s) |-> d[s + k - 1] - 48],
                  float |-> hasFrac \/ hasExp,
                  text |-> SubSeq(d, i, expEnd - 1)], expEnd)

\* numeral a <= numeral b, neither with a leading zero
RECURSIVE LexLeq(_, _, _)
LexLeq(a, b, i) ==
    IF i > Len(a) THEN TRUE
    ELSE IF a[i] # b[i] THEN a[i] < b[i]
    ELSE LexLeq(a, b, i + 1)

NumeralLeq(a, b) == Len(a) < Len(b) \/ (Len(a) = Len(b) /\ LexLeq(a, b, 1))

\* the value of a field of the given type. An integer field takes no number
\* with a fraction or an exponent, and -0 is such a number; an f32 field takes
\* any number and no null. The decimal texts among the inputs of the model
\* are shortest texts, or integers.
NumberAs(type, n) ==
    IF ~n.ok THEN n
    ELSE CASE type = "u32" ->
                IF \/ n.val.float
                   \/ n.val.neg
                   \/ ~NumeralLeq(n.val.digits, U32Max)
                THEN Fail("invalid value")
                ELSE Got(n.val.digits, n.next)
           [] type = "i64" ->
                IF \/ n.val.float
                   \/ n.val.neg /\ n.val.digits = <<0>>
                   \/ ~NumeralLeq(n.val.digits,
                                  IF n.val.neg THEN I64MinMagnitude
                                  ELSE I64Max)
                THEN Fail("invalid value")
                ELSE Got([neg |-> n.val.neg, digits |-> n.val.digits],
                         n.next)
           [] type = "f32" ->
                Got(Finite(IF n.val.float THEN n.val.text
                           ELSE n.val.text \o <<46, 48>>), n.next)

ParseValue(type, d, i) ==
    IF type = "String" THEN ParseString(d, i)
    ELSE NumberAs(type, ParseNumber(d, i))

\* the value of a field the variant does not have is skipped; such values are
\* strings, numbers, true, false and null among the inputs of the model
SkipValue(d, i) ==
    IF At(d, i) = 34 THEN ParseString(d, i)
    ELSE IF StartsWith(d, i, NullBytes) THEN Got(<<>>, i + 4)
    ELSE IF StartsWith(d, i, <<116, 114, 117, 101>>) THEN Got(<<>>, i + 4)
    ELSE IF StartsWith(d, i, <<102, 97, 108, 115, 101>>) THEN Got(<<>>, i + 5)
    ELSE ParseNumber(d, i)

\* the members of the object of a struct variant from index i on, got being
\* the fields read so far: in any order, none twice, none missing. A member
\* is its key (MemberOf), a colon and its value (MemberValued), and a comma
\* or the closing brace follows it.
RECURSIVE Members(_, _, _, _)

\* after the value val of the member, which is the field at of fs or none
MemberValued(d, fs, got, at, val) ==
    LET f == fs[CHOOSE k \in at : TRUE]
        got2 == IF at = {} THEN got
                ELSE [n \in DOMAIN got \cup {f.name} |->
                        IF n = f.name THEN val.val ELSE got[n]]
        e == SkipWs(d, val.next)
    IN  IF ~val.ok THEN val
        ELSE IF At(d, e) = 44 THEN Members(d, e + 1, fs, got2)
        ELSE IF At(d, e) # 125 THEN Fail("expected comma or brace")
        ELSE IF DOMAIN got2 # {fs[k].name : k \in DOMAIN fs}
        THEN Fail("missing field")
        ELSE Got(got2, e + 1)

\* after the key of the member
MemberOf(d, fs, got, key) ==
    LET c == SkipWs(d, key.next)
        v == SkipWs(d, c + 1)
        at == {k \in DOMAIN fs : Name[fs[k].name] = key.val}
        f == fs[CHOOSE k \in at : TRUE]
    IN  IF ~key.ok THEN key
        ELSE IF At(d, c) # 58 THEN Fail("expected colon")
        ELSE MemberValued(d, fs, got, at,
                          IF at = {} THEN SkipValue(d, v)
                          ELSE IF f.name \in DOMAIN got
                          THEN Fail("duplicate field")
                          ELSE ParseValue(f.type, d, v))

Members(d, i, fs, got) == MemberOf(d, fs, got, ParseString(d, SkipWs(d, i)))

\* the content of a struct variant, an object (the inputs of the model hold
\* no arrays)
ParseStruct(d, i, fs) ==
    IF At(d, i) # 123 THEN Fail("invalid type")
    ELSE IF At(d, SkipWs(d, i + 1)) = 125 THEN Fail("missing field")
    ELSE Members(d, i + 1, fs, [n \in {} |-> <<>>])

\* a unit variant written as the string s, and nothing after it
UnitVariantOf(data, s) ==
    IF /\ s.ok
       /\ SkipWs(data, s.next) > Len(data)
       /\ \E t \in UnitVariants : Name[t] = s.val
    THEN Ok([tag |-> CHOOSE t \in UnitVariants : Name[t] = s.val])
    ELSE Err("Deserialization error")

\* the variant t with the content body, then the closing brace and nothing
\* after it
VariantWith(data, t, body) ==
    LET close == SkipWs(data, body.next)
    IN  IF \/ ~body.ok
           \/ At(data, close) # 125
           \/ SkipWs(data, close + 1) <= Len(data)
        THEN Err("Deserialization error")
        ELSE Ok([n \in DOMAIN body.val \cup {"tag"} |->
                   IF n = "tag" THEN t ELSE body.val[n]])

\* a variant written as an object with the one key key: a colon, then null
\* for a unit variant and the object of the fields for a struct variant
VariantOf(data, key) ==
    LET c == SkipWs(data, key.next)
        v == SkipWs(data, c + 1)
        ts == IF key.ok
              THEN {t \in StructVariants \cup UnitVariants : Name[t] = key.val}
              ELSE {}
        t == CHOOSE x \in ts : TRUE
    IN  IF ts = {} \/ At(data, c) # 58 THEN Err("Deserialization error")
        ELSE VariantWith(data, t,
                         IF t \in UnitVariants
                         THEN IF StartsWith(data, v, NullBytes)
                              THEN Got([n \in {} |-> <<>>], v + 4)
                              ELSE Fail("invalid type")
                         ELSE ParseStruct(data, v, Fields(t)))

\* from_bytes: "Variant" for a unit variant, {"Variant": content} for any
\* variant, with white space around the tokens and nothing after the value
from_bytes(data) ==
    LET i == SkipWs(data, 1)
    IN  IF At(data, i) = 34 THEN UnitVariantOf(data, ParseString(data, i))
        ELSE IF At(data, i) = 123
        THEN VariantOf(data, ParseString(data, SkipWs(data, i + 1)))
        ELSE Err("Deserialization error")

\* -------------------------------------------------------------- RateLimiter
\* RateLimit of a peer that has just connected
FreshRateLimit(t) ==
    [packets_sent |-> 0, last_reset |-> t,
     max_packets_per_second |-> DefaultMaxPackets]

\* check_rate_limit with the cap compared by > instead of >=
check_rate_limit_off_by_one(limits, peer_id, t) ==
    IF peer_id \in DOMAIN limits
    THEN LET rl == limits[peer_id]
             reset == IF t - rl.last_reset >= TicksPerSecond
                      THEN [rl EXCEPT !.packets_sent = 0, !.last_reset = t]
                      ELSE rl
         IN  IF reset.packets_sent > reset.max_packets_per_second
             THEN [ok |-> FALSE, limits |-> [limits EXCEPT ![peer_id] = reset]]
             ELSE [ok |-> TRUE,
                   limits |-> [limits EXCEPT ![peer_id] =
                                 [reset EXCEPT !.packets_sent = @ + 1]]]
    ELSE [ok |-> TRUE, limits |-> limits]

\* check_rate_limit that starts to track a peer it does not find
check_rate_limit_tracks_unknown(limits, peer_id, t) ==
    LET all == [p \in DOMAIN limits \cup {peer_id} |->
                  IF p \in DOMAIN limits THEN limits[p] ELSE FreshRateLimit(t)]
        rl == all[peer_id]
        reset == IF t - rl.last_reset >= TicksPerSecond
                 THEN [rl EXCEPT !.packets_sent = 0, !.last_reset = t]
                 ELSE rl
    IN  IF reset.packets_sent >= reset.max_packets_per_second
        THEN [ok |-> FALSE, limits |-> [all EXCEPT ![peer_id] = reset]]
        ELSE [ok |-> TRUE,
              limits |-> [all EXCEPT ![peer_id] =
                            [reset EXCEPT !.packets_sent = @ + 1]]]

\* check_rate_limit that counts a send it rejects
check_rate_limit_counts_rejected(limits, peer_id, t) ==
    IF peer_id \in DOMAIN limits
    THEN LET rl == limits[peer_id]
             reset == IF t - rl.last_reset >= TicksPerSecond
                      THEN [rl EXCEPT !.packets_sent = 0, !.last_reset = t]
                      ELSE rl
             counted == [reset EXCEPT !.packets_sent = @ + 1]
         IN  [ok |-> reset.packets_sent < reset.max_packets_per_second,
              limits |-> [limits EXCEPT ![peer_id] = counted]]
    ELSE [ok |-> TRUE, limits |-> limits]

\* check_rate_limit with one budget for all peers: the send is refused when
\* any tracked peer is at its cap
check_rate_limit_shared_budget(limits, peer_id, t) ==
    IF peer_id \in DOMAIN limits
    THEN LET rl == limits[peer_id]
             reset == IF t - rl.last_reset >= TicksPerSecond
                      THEN [rl EXCEPT !.packets_sent = 0, !.last_reset = t]
                      ELSE rl
             after == [limits EXCEPT ![peer_id] = reset]
         IN  IF \E q \in DOMAIN after :
                   after[q].packets_sent >= after[q].max_packets_per_second
             THEN [ok |-> FALSE, limits |-> after]
             ELSE [ok |-> TRUE,
                   limits |-> [after EXCEPT ![peer_id].packets_sent = @ + 1]]
    ELSE [ok |-> TRUE, limits |-> limits]

\* check_rate_limit(peer_id) at time t on the map limits: whether the send may
\* go on, and the map afterwards
check_rate_limit(limits, peer_id, t) ==
    IF peer_id \in DOMAIN limits
    THEN LET rl == limits[peer_id]
             reset == IF t - rl.last_reset >= TicksPerSecond
                      THEN [rl EXCEPT !.packets_sent = 0, !.last_reset = t]
                      ELSE rl
         IN  IF reset.packets_sent >= reset.max_packets_per_second
             THEN [ok |-> FALSE, limits |-> [limits EXCEPT ![peer_id] = reset]]
             ELSE [ok |-> TRUE,
                   limits |-> [limits EXCEPT ![peer_id] =
                                 [reset EXCEPT !.packets_sent = @ + 1]]]
    ELSE [ok |-> TRUE, limits |-> limits]

\* ------------------------------------------------------------ TransportHost
\* a send side that compresses from the threshold on
ProcessedData_from_threshold(data) ==
    IF compression_enabled /\ Len(data) >= CompressThreshold
    THEN compress_data(data)
    ELSE Ok(data)

\* The bytes send_packet puts in the packet
ProcessedData(data) ==
    IF compression_enabled /\ Len(data) > CompressThreshold
    THEN compress_data(data)
    ELSE Ok(data)

\* send_packet without the call of check_rate_limit
send_packet_unlimited(limits, st, peer_id, data, reliable, packetOk) ==
    LET processed == ProcessedData(data)
        failed(e) == [res |-> e, limits |-> limits, stats |-> st,
                      limited |-> FALSE, wire |-> <<>>]
    IN  IF ~processed.ok THEN failed("CompressionError")
        ELSE IF host = "None" THEN failed("NotInitialized")
        ELSE IF ~packetOk THEN failed("PacketFailed")
        ELSE IF peer_id \notin hostPeers THEN failed("PeerNotFound")
        ELSE [res |-> "Ok", limits |-> limits,
              stats |-> [st EXCEPT !.packets_sent = @ + 1,
                                   !.bytes_sent = @ + Len(processed.val)],
              limited |-> FALSE,
              wire |-> <<[peer |-> peer_id, bytes |-> processed.val]>>]

\* send_packet(peer_id, data, reliable) on the limiter map limits and the
\* counters st.  packetOk: Packet::new returns a packet.  The result carries
\* the new map and counters, whether the limiter was consulted and the packet
\* that reached peer.send_packet, if any (reliable only selects its PacketMode).
send_packet(limits, st, peer_id, data, reliable, packetOk) ==
    LET chk == check_rate_limit(limits, peer_id, now)
        processed == ProcessedData(data)
        failed(e) == [res |-> e, limits |-> chk.limits, stats |-> st,
                      limited |-> TRUE, wire |-> <<>>]
    IN  IF ~chk.ok
        THEN [res |-> "RateLimited", limits |-> chk.limits,
              stats |-> [st EXCEPT !.rate_limit_violations = @ + 1],
              limited |-> TRUE, wire |-> <<>>]
        ELSE IF ~processed.ok THEN failed("CompressionError")
        ELSE IF host = "None" THEN failed("NotInitialized")
        ELSE IF ~packetOk THEN failed("PacketFailed")
        ELSE IF peer_id \notin hostPeers THEN failed("PeerNotFound")
        ELSE [res |-> "Ok", limits |-> chk.limits,
              stats |-> [st EXCEPT
                  !.packets_sent = @ + 1,
                  !.bytes_sent = @ + Len(processed.val),
                  !.compression_ratio =
                      IF compression_enabled /\ Len(data) > CompressThreshold
                      THEN <<Len(processed.val), Len(data)>> ELSE @],
              limited |-> TRUE,
              wire |-> <<[peer |-> peer_id, bytes |-> processed.val]>>]

\* a receive side that looks for the magic bytes only in packets longer than
\* the threshold of the send side
ReceivedData_above_threshold(data) ==
    IF compression_enabled /\ Len(data) > CompressThreshold
    THEN IF data[1] = GzMagic0 /\ data[2] = GzMagic1
         THEN LET r == decompress_data(data)
              IN  IF r.ok THEN r.val ELSE data
         ELSE data
    ELSE data

\* a receive side that delivers nothing when the decompression fails
ReceivedData_drops_on_failure(data) ==
    IF compression_enabled /\ Len(data) > DecompressMinLen
    THEN IF data[1] = GzMagic0 /\ data[2] = GzMagic1
         THEN LET r == decompress_data(data)
              IN  IF r.ok THEN r.val ELSE <<>>
         ELSE data
    ELSE data

\* The bytes process_events delivers for a received packet
ReceivedData(data) ==
    IF compression_enabled /\ Len(data) > DecompressMinLen
    THEN IF data[1] = GzMagic0 /\ data[2] = GzMagic1
         THEN LET r == decompress_data(data)
              IN  IF r.ok THEN r.val ELSE data
         ELSE data
    ELSE data

\* The arm of network.rs:147-162 a received packet takes: decompress_data is
\* not called ("Raw"), returns Ok ("Decompressed") or returns Err, which is
\* logged ("DecompressionFailed")
DecompressOutcome(data) ==
    IF compression_enabled /\ Len(data) > DecompressMinLen
    THEN IF data[1] = GzMagic0 /\ data[2] = GzMagic1
         THEN IF decompress_data(data).ok THEN "Decompressed"
              ELSE "DecompressionFailed"
         ELSE "Raw"
    ELSE "Raw"

\* One turn of the loop of process_events on s (the transport's peers, the
\* limiter map, the counters, the events so far): the transport changes its
\* peer set as host.service() returns the event, then the manager handles it.
OnConnect(s, e) ==
    [s EXCEPT
       !.peers = @ \cup {e.peer},
       !.limits = [p \in DOMAIN @ \cup {e.peer} |->
                     IF p = e.peer THEN FreshRateLimit(now) ELSE @[p]],
       !.events = Append(@, [type |-> "PeerConnected", peer_id |-> e.peer,
                             data |-> <<>>])]

\* Event::Disconnect that leaves the peer's RateLimit in the map
OnDisconnect_keeps_limit(s, e) ==
    [s EXCEPT
       !.peers = @ \ {e.peer},
       !.events = Append(@, [type |-> "PeerDisconnected", peer_id |-> e.peer,
                             data |-> <<>>])]

OnDisconnect(s, e) ==
    [s EXCEPT
       !.peers = @ \ {e.peer},
       !.limits = [p \in DOMAIN @ \ {e.peer} |-> @[p]],
       !.events = Append(@, [type |-> "PeerDisconnected", peer_id |-> e.peer,
                             data |-> <<>>])]

\* Event::Receive that consults the sender's limiter and drops what it rejects
OnReceive_limited(s, e) ==
    LET chk == check_rate_limit(s.limits, e.peer, now)
    IN  IF chk.ok
        THEN [s EXCEPT
                !.limits = chk.limits,
                !.stats = [@ EXCEPT !.packets_received = @ + 1,
                                    !.bytes_received = @ + Len(e.data)],
                !.events = Append(@, [type |-> "DataReceived", peer_id |-> e.peer,
                                      data |-> ReceivedData(e.data)])]
        ELSE [s EXCEPT !.limits = chk.limits]

OnReceive(s, e) ==
    [s EXCEPT
       !.stats = [@ EXCEPT !.packets_received = @ + 1,
                           !.bytes_received = @ + Len(e.data)],
       !.events = Append(@, [type |-> "DataReceived", peer_id |-> e.peer,
                             data |-> ReceivedData(e.data)])]

HandleEvent(s, e) ==
    CASE e.type = "Connect" -> OnConnect(s, e)
      [] e.type = "Disconnect" -> OnDisconnect(s, e)
      [] e.type = "Receive" -> OnReceive(s, e)

\* the loop of process_events as an if let: one event at a poll
DrainEvents_first_only(s, queue) ==
    IF queue = <<>> THEN s ELSE HandleEvent(s, Head(queue))

\* process_events(): the loop over everything host.service() returns
RECURSIVE DrainEvents(_, _)
DrainEvents(s, queue) ==
    IF queue = <<>> THEN s
    ELSE DrainEvents(HandleEvent(s, Head(queue)), Tail(queue))

process_events(queue) ==
    IF host = "Some"
    THEN DrainEvents([peers |-> hostPeers, limits |-> peer_rate_limits,
                      stats |-> stats, events |-> <<>>], queue)
    ELSE [peers |-> hostPeers, limits |-> peer_rate_limits,
          stats |-> stats, events |-> <<>>]

\* ---------------------------------------------------------- EventDispatcher
\* What process_network_events does with one event of process_events
Dispatch(ev) ==
    CASE ev.type = "PeerConnected" ->
           [peer_id |-> ev.peer_id, did |-> "spawn NetworkPlayer"]
      [] ev.type = "PeerDisconnected" ->
           [peer_id |-> ev.peer_id, did |-> "cleanup"]
      [] ev.type = "DataReceived" ->
           IF from_bytes(ev.data).ok
           THEN [peer_id |-> ev.peer_id, did |-> "message"]
           ELSE [peer_id |-> ev.peer_id, did |-> "parse failure logged"]

\* the loop of process_network_events left at the first message that fails
\* to parse
DispatchAll_stops_at_failure(events) ==
    LET bad == {i \in DOMAIN events : events[i].type = "DataReceived"
                                      /\ ~from_bytes(events[i].data).ok}
        n == IF bad = {} THEN Len(events)
             ELSE (CHOOSE i \in bad : \A j \in bad : i <= j) - 1
    IN  [i \in 1..n |-> Dispatch(events[i])]

\* the loop of process_network_events over the events of process_events
DispatchAll(events) == [i \in 1..Len(events) |-> Dispatch(events[i])]

\* the loop of broadcast left at the first send that fails
RECURSIVE BroadcastLoop_stops_on_error(_, _, _, _, _)
BroadcastLoop_stops_on_error(s, order, data, reliable, packetOk) ==
    IF order = <<>> THEN s
    ELSE LET p == Head(order)
             r == send_packet(s.limits, s.stats, p, data, reliable, packetOk[p])
             t == [limits |-> r.limits, stats |-> r.stats,
                   results |-> Append(s.results, [peer |-> p, res |-> r.res]),
                   wire |-> s.wire \o r.wire]
         IN  IF r.res # "Ok" THEN t
             ELSE BroadcastLoop_stops_on_error(t, Tail(order), data, reliable, packetOk)

\* broadcast(data, reliable): send_packet to every key of peer_rate_limits, in
\* the order the map iterates them; a failed send is logged and the loop goes on.
\* packetOk[p]: Packet::new returns a packet for the send to p.
RECURSIVE BroadcastLoop(_, _, _, _, _)
BroadcastLoop(s, order, data, reliable, packetOk) ==
    IF order = <<>> THEN s
    ELSE LET p == Head(order)
             r == send_packet(s.limits, s.stats, p, data, reliable, packetOk[p])
         IN  BroadcastLoop([limits |-> r.limits, stats |-> r.stats,
                            results |-> Append(s.results, [peer |-> p, res |-> r.res]),
                            wire |-> s.wire \o r.wire],
                           Tail(order), data, reliable, packetOk)

broadcast(order, data, reliable, packetOk) ==
    [res |-> "Ok"] @@
    BroadcastLoop([limits |-> peer_rate_limits, stats |-> stats,
                   results |-> <<>>, wire |-> <<>>],
                  order, data, reliable, packetOk)

\* set_peer_rate_limit that starts to track a peer it does not find
set_peer_rate_limit_inserts(limits, peer_id, max) ==
    [p \in DOMAIN limits \cup {peer_id} |->
        IF p = peer_id
        THEN IF p \in DOMAIN limits
             THEN [limits[p] EXCEPT !.max_packets_per_second = max]
             ELSE [FreshRateLimit(now) EXCEPT !.max_packets_per_second = max]
        ELSE limits[p]]

\* set_peer_rate_limit(peer_id, max_packets_per_second)
set_peer_rate_limit(limits, peer_id, max) ==
    IF peer_id \in DOMAIN limits
    THEN [limits EXCEPT ![peer_id].max_packets_per_second = max]
    ELSE limits

\* ------------------------------------------------------------------- inputs
SendPayloads == {PingBytes, BigPayload}

\* the limits set_peer_rate_limit is called with
Rates == {0, 1}

GzPingBytes == compress_data(PingBytes).val
\* starts with the magic bytes and is no gzip stream
FakeGzBytes == <<GzMagic0, GzMagic1, 80, 105, 110, 103>>

WirePayloads == {PingBytes, MalformedBytes, GzPingBytes, FakeGzBytes}

\* the orders in which a map with the keys S may iterate them
Orders(S) ==
    {o \in [1..Cardinality(S) -> S] : \A i, j \in DOMAIN o : o[i] = o[j] => i = j}

\* ------------------------------------------------------------------ history
NoOp(name) ==
    [op |-> name, peer |-> 0, max |-> 0, res |-> "Ok", limited |-> FALSE,
     wire |-> <<>>,
     results |-> <<>>, input |-> <<>>, events |-> <<>>, handled |-> <<>>]

NoAccepts == [i \in 1..(TicksPerSecond + 1) |-> 0]

\* The event sequences of at most n events the transport can deliver when it
\* knows the peers known and may still deliver r received packets: only a peer
\* it does not know connects, only a peer it knows disconnects or sends.
RECURSIVE Batches(_, _, _)
Batches(known, n, r) ==
    {<<>>} \cup
    IF n = 0 THEN {}
    ELSE UNION {
           { <<[type |-> "Connect", peer |-> p, data |-> <<>>]>> \o b :
               b \in Batches(known \cup {p}, n - 1, r) } : p \in PeerIds \ known }
         \cup UNION {
           { <<[type |-> "Disconnect", peer |-> p, data |-> <<>>]>> \o b :
               b \in Batches(known \ {p}, n - 1, r) } : p \in known }
         \cup (IF r = 0 THEN {}
              ELSE UNION {
                { <<[type |-> "Receive", peer |-> pd[1], data |-> pd[2]]>> \o b :
                    b \in Batches(known, n - 1, r - 1) } :
                pd \in known \X WirePayloads })

\* the peers whose most recent lifecycle event is Connect, once the transport
\* has delivered batch
LifecycleAfter(life, batch) ==
    {p \in PeerIds :
        LET at == {i \in DOMAIN batch : batch[i].peer = p
                                        /\ batch[i].type \in {"Connect", "Disconnect"}}
        IN  IF at = {} THEN p \in life
            ELSE batch[CHOOSE i \in at : \A j \in at : j <= i].type = "Connect"}

\* the threads that call the SecurityManager, and a thread that is in no call
Threads == {1, 2}

NoCall ==
    [pc |-> "idle", op |-> "none", player |-> 0, args |-> <<>>,
     current_time |-> 0, view |-> <<>>]


\* -------------------------------------------------------------------- state
\* ------------------------------------------------------- the game state
\* f32 has a significand of 24 bits: every integer below 2^24 is a value of it
F32Significand == 16777216

\* the spacing of the f32 values around n >= 0: q is doubled until n / q fits
\* the significand
RECURSIVE Ulp(_, _)
Ulp(n, q) == IF n \div q < F32Significand THEN q ELSE Ulp(n, 2 * q)

\* n rounded to a multiple of q, to the nearest one and on a tie to the even one
RoundTo(n, q) ==
    IF 2 * (n % q) < q THEN (n \div q) * q
    ELSE IF 2 * (n % q) > q THEN (n \div q) * q + q
    ELSE IF (n \div q) % 2 = 0 THEN (n \div q) * q
    ELSE (n \div q) * q + q

\* n as f32, for an integer n >= 0
F32(n) == RoundTo(n, Ulp(n, 1))

\* f as u32, for an f32 f >= 0 with an integer value below 2^31
AsU32(f) == f

\* IdleProgress { resources: 0.0, experience: 0.0, level: 1, last_update: 0.0 }
\* resources are counted in halves and experience in tenths, so that the
\* rates level * 0.5 and 0.1 a second are whole numbers; last_update is in
\* seconds since the epoch
NewPlayer == [resources |-> 0, experience |-> 0, level |-> 1, last_update |-> 0]

\* what an operation on the game state returned
NoRet(op) == [op |-> op, res |-> "Ok", value |-> <<>>]

\* systems.rs, update_idle_progress for one IdleProgress: the resources and
\* the experience of delta_time seconds, the level-up check
Credited(p, delta_time) ==
    [p EXCEPT !.resources = F32(@ + F32(p.level * F32(delta_time))),
              !.experience = @ + F32(delta_time)]

\* required_exp = (level * level) as f32 * 10.0, in tenths
RequiredExp(level) == F32(level * level) * 100

LevelChecked(p) ==
    IF p.experience >= RequiredExp(p.level)
    THEN [p EXCEPT !.level = @ + 1, !.experience = 0]
    ELSE p

update_idle_progress(p, current_time) ==
    IF current_time - p.last_update > 0
    THEN [LevelChecked(Credited(p, current_time - p.last_update))
             EXCEPT !.last_update = current_time]
    ELSE p

\* resources.rs, save_progress: the parameters bound to the INSERT, as the
\* table keeps them. level is bound as f32; the column level has INTEGER
\* affinity and keeps a REAL with an integer value as that integer.
ProgressRow(p) ==
    [resources |-> p.resources, experience |-> p.experience,
     level |-> F32(p.level), last_update |-> p.last_update]

\* resources.rs, load_progress: the IdleProgress made of a row; level is read
\* as f32 and cast to u32
ProgressOfRow(row) ==
    [resources |-> row.resources, experience |-> row.experience,
     level |-> AsU32(F32(row.level)), last_update |-> row.last_update]

\* INSERT OR REPLACE INTO progress (id, ...) VALUES (1, ...)
InsertOrReplace(rows, row) ==
    [id \in DOMAIN rows \cup {1} |-> IF id = 1 THEN row ELSE rows[id]]

Init ==
    /\ host = "None"
    /\ hostPeers = {}
    /\ peer_rate_limits = <<>>
    /\ compression_enabled = TRUE
    /\ stats = [packets_sent |-> 0, packets_received |-> 0, bytes_sent |-> 0,
                bytes_received |-> 0, compression_ratio |-> <<0, 1>>,
                rate_limit_violations |-> 0]
    /\ now = 0
    /\ client = [connected |-> FALSE, peer |-> "None"]
    /\ lifecycle = {}
    /\ accepted = [p \in PeerIds |-> NoAccepts]
    /\ sends = 0
    /\ last = NoOp("new")
    /\ player_actions = <<>>
    /\ timestamp = BootTime
    /\ advances = 0
    /\ approved_quest = [p \in PlayerIds |-> 0]
    /\ verdict = [op |-> "new", player |-> 0, args |-> <<>>, result |-> "None",
                  status |-> [some |-> FALSE]]
    /\ last_call = [p \in PlayerIds |-> 0]
    /\ lock = {}
    /\ calls = [t \in Threads |-> NoCall]
    /\ progress = NewPlayer
    /\ trail = <<>>
    /\ slot = <<>>
    /\ saved = <<>>
    /\ cache = <<>>
    /\ model = "None"
    /\ generation_stats = [maps_generated |-> 0, cache_hits |-> 0]
    /\ ret = NoRet("new")

\* the sends of results that the limiter of a tracked peer accepted, added to
\* the current tick of the peers' logs
LogAccepts(acc, results) ==
    [p \in PeerIds |->
        LET n == Cardinality({i \in DOMAIN results :
                                /\ results[i].peer = p
                                /\ p \in DOMAIN peer_rate_limits
                                /\ results[i].res # "RateLimited"})
        IN  [acc[p] EXCEPT ![TicksPerSecond + 1] = @ + n]]

\* ------------------------------------------------------------------ actions
\* The clock advances by one tick.
Tick ==
    /\ now < MaxTime
    /\ now' = now + 1
    /\ accepted' = [p \in PeerIds |-> Tail(accepted[p]) \o <<0>>]
    /\ last' = NoOp("tick")
    /\ UNCHANGED <<secVars, conVars, gameVars, host, hostPeers, peer_rate_limits,
                   compression_enabled, stats, client, lifecycle, sends>>

\* an initialize that installs a host although the bind failed
Initialize_binds_anyway(bound) ==
    /\ host = "None"
    /\ host' = "Some"
    /\ last' = [NoOp("initialize") EXCEPT
                  !.res = IF bound THEN "Ok" ELSE "BindFailure"]
    /\ UNCHANGED <<secVars, conVars, gameVars, hostPeers, peer_rate_limits, compression_enabled,
                   stats, now, client, lifecycle, accepted, sends>>

\* setup_network_manager: initialize(4, 8080); bound: Host::new returns a host.
Initialize(bound) ==
    /\ host = "None"
    /\ host' = IF bound THEN "Some" ELSE "None"
    /\ last' = [NoOp("initialize") EXCEPT
                  !.res = IF bound THEN "Ok" ELSE "BindFailure"]
    /\ UNCHANGED <<secVars, conVars, gameVars, hostPeers, peer_rate_limits, compression_enabled,
                   stats, now, client, lifecycle, accepted, sends>>

\* a poll cycle that takes a peer id for a player id and drops the history of
\* a peer that disconnects
ProcessNetworkEvents_drops_history(batch) ==
    LET r == process_events(batch)
        gone == {batch[i].peer : i \in {j \in DOMAIN batch :
                                           batch[j].type = "Disconnect"}}
    IN  /\ hostPeers' = r.peers
        /\ peer_rate_limits' = r.limits
        /\ stats' = r.stats
        /\ lifecycle' = LifecycleAfter(lifecycle, batch)
        /\ accepted' = [p \in PeerIds |->
                          IF \E i \in DOMAIN batch :
                                /\ batch[i].peer = p
                                /\ batch[i].type \in {"Connect", "Disconnect"}
                          THEN NoAccepts ELSE accepted[p]]
        /\ last' = [NoOp("poll") EXCEPT !.input = batch, !.events = r.events,
                                        !.handled = DispatchAll(r.events)]
        /\ player_actions' = [p \in DOMAIN player_actions \ gone |->
                                player_actions[p]]
        /\ UNCHANGED <<conVars, gameVars, host, compression_enabled, now, client, sends,
                       timestamp, advances, approved_quest, verdict, last_call>>

\* process_network_events: one poll cycle, process_events() over the events
\* the transport has ready, and the dispatch of what it returns.
ProcessNetworkEvents(batch) ==
    LET r == process_events(batch)
    IN  /\ hostPeers' = r.peers
        /\ peer_rate_limits' = r.limits
        /\ stats' = r.stats
        /\ lifecycle' = LifecycleAfter(lifecycle, batch)
        /\ accepted' = [p \in PeerIds |->
                          IF \E i \in DOMAIN batch :
                                /\ batch[i].peer = p
                                /\ batch[i].type \in {"Connect", "Disconnect"}
                          THEN NoAccepts ELSE accepted[p]]
        /\ last' = [NoOp("poll") EXCEPT !.input = batch, !.events = r.events,
                                        !.handled = DispatchAll(r.events)]
        /\ UNCHANGED <<secVars, conVars, gameVars, host, compression_enabled, now, client, sends>>

\* send_packet(p, d, reliable)
Send(p, d, reliable, packetOk) ==
    LET r == send_packet(peer_rate_limits, stats, p, d, reliable, packetOk)
    IN  /\ sends < MaxSends
        /\ sends' = sends + 1
        /\ peer_rate_limits' = r.limits
        /\ stats' = r.stats
        /\ accepted' = LogAccepts(accepted, <<[peer |-> p, res |-> r.res]>>)
        /\ last' = [NoOp("send") EXCEPT !.peer = p, !.res = r.res,
                                        !.limited = r.limited, !.wire = r.wire]
        /\ UNCHANGED <<secVars, conVars, gameVars, host, hostPeers, compression_enabled, now,
                       client, lifecycle>>

\* broadcast(d, reliable)
Broadcast(order, d, reliable, packetOk) ==
    LET r == broadcast(order, d, reliable, packetOk)
    IN  /\ sends + Len(order) <= MaxSends
        /\ sends' = sends + Len(r.results)
        /\ peer_rate_limits' = r.limits
        /\ stats' = r.stats
        /\ accepted' = LogAccepts(accepted, r.results)
        /\ last' = [NoOp("broadcast") EXCEPT !.res = r.res, !.limited = TRUE,
                                             !.wire = r.wire, !.results = r.results]
        /\ UNCHANGED <<secVars, conVars, gameVars, host, hostPeers, compression_enabled, now,
                       client, lifecycle>>

\* set_peer_rate_limit(p, max)
SetPeerRateLimit(p, max) ==
    /\ peer_rate_limits' = set_peer_rate_limit(peer_rate_limits, p, max)
    /\ accepted' = IF peer_rate_limits' # peer_rate_limits
                   THEN [accepted EXCEPT ![p] = NoAccepts] ELSE accepted
    /\ last' = [NoOp("set_peer_rate_limit") EXCEPT !.peer = p, !.max = max]
    /\ UNCHANGED <<secVars, conVars, gameVars, host, hostPeers, compression_enabled, stats, now,
                   client, lifecycle, sends>>

\* ----------------------------------------------------------- the two roles
\* client.rs, net_connect: connect unless connected; connected: host.connect
\* returns a peer.
NetConnect(connected) ==
    /\ client' = IF ~client.connected /\ connected
                 THEN [client EXCEPT !.peer = "Some"] ELSE client
    /\ last' = NoOp("net_connect")
    /\ UNCHANGED <<secVars, conVars, gameVars, host, hostPeers, peer_rate_limits, compression_enabled,
                   stats, now, lifecycle, accepted, sends>>

\* the events the client's host can return: it connects only after net_connect
\* and before the connection is up
ClientEvents ==
    {"None"} \cup (IF client.peer = "Some" /\ ~client.connected THEN {"Connect"} ELSE {})
             \cup (IF client.connected THEN {"Disconnect", "Receive"} ELSE {})

\* client.rs, net_service: one event of the client's host
NetService(event) ==
    /\ client' = CASE event = "Connect" -> [client EXCEPT !.connected = TRUE]
                   [] event = "Disconnect" -> [client EXCEPT !.connected = FALSE]
                   [] OTHER -> client
    /\ last' = NoOp("net_service")
    /\ UNCHANGED <<secVars, conVars, gameVars, host, hostPeers, peer_rate_limits, compression_enabled,
                   stats, now, lifecycle, accepted, sends>>

PingPayload == <<112, 105, 110, 103>>

\* client.rs, net_ping: the packet goes straight to peer.send_packet
NetPing ==
    /\ last' = [NoOp("net_ping") EXCEPT
                  !.wire = IF client.connected /\ client.peer = "Some"
                           THEN <<[peer |-> 0, bytes |-> PingPayload]>> ELSE <<>>]
    /\ UNCHANGED <<secVars, conVars, gameVars, host, hostPeers, peer_rate_limits, compression_enabled,
                   stats, now, client, lifecycle, accepted, sends>>

\* server/main.rs, one turn of the loop of main: a received packet is echoed
\* straight to peer.send_packet
ServerService(event) ==
    /\ last' = [NoOp("server_service") EXCEPT
                  !.peer = event.peer,
                  !.wire = IF event.type = "Receive"
                           THEN <<[peer |-> event.peer, bytes |-> event.data]>>
                           ELSE <<>>]
    /\ UNCHANGED <<secVars, conVars, gameVars, host, hostPeers, peer_rate_limits, compression_enabled,
                   stats, now, client, lifecycle, accepted, sends>>

ServerEvents ==
    [type : {"Connect", "Disconnect"}, peer : PeerIds, data : {<<>>}]
    \cup [type : {"Receive"}, peer : PeerIds, data : {PingPayload}]

\* ---------------------------------------------------------- SecurityManager
\* u64::saturating_sub
SatSub(a, b) == IF a >= b THEN a - b ELSE 0

\* the PlayerActionHistory or_insert_with creates
NewHistory ==
    [last_resource_collection |-> 0, last_quest_completion |-> 0,
     last_level_up |-> 0, actions_per_second |-> 0,
     suspicious_activity_count |-> 0]

\* an insertion that starts a new map
EntryOrInsert_alone(actions, player_id) ==
    IF player_id \in DOMAIN actions THEN actions
    ELSE [p \in {player_id} |-> NewHistory]

\* actions.entry(player_id).or_insert_with(..)
EntryOrInsert(actions, player_id) ==
    IF player_id \in DOMAIN actions THEN actions
    ELSE [p \in DOMAIN actions \cup {player_id} |->
            IF p = player_id THEN NewHistory ELSE actions[p]]

\* validate_resource_collection with one of its checks changed: the rate
\* counter updated before the amount is looked at (countFirst), the rate
\* compared with >= (rateAtMax), the threshold compared with > or not at all
\* (flag: "above", "never")
ResourceVariant(actions, player_id, amount, current_time, countFirst, rateAtMax, flag) ==
    LET a0 == EntryOrInsert(actions, player_id)
        h0 == a0[player_id]
        time_since_last == SatSub(current_time, h0.last_resource_collection)
        h1 == IF time_since_last < 1
              THEN [h0 EXCEPT !.actions_per_second = @ + 1]
              ELSE [h0 EXCEPT !.actions_per_second = 1]
        over == IF rateAtMax
                THEN h1.actions_per_second >= MaxActionsPerSecond
                ELSE h1.actions_per_second > MaxActionsPerSecond
        h2 == [h1 EXCEPT !.last_resource_collection = current_time]
        flagged == CASE flag = "above" ->
                          h2.suspicious_activity_count > SuspiciousThreshold
                     [] flag = "never" -> FALSE
                     [] OTHER ->
                          h2.suspicious_activity_count >= SuspiciousThreshold
    IN  IF amount > MaxResourceGainPerAction
        THEN [result |-> "Rejected",
              actions |-> [a0 EXCEPT ![player_id] =
                             [(IF countFirst THEN h1 ELSE h0) EXCEPT
                                !.suspicious_activity_count = @ + 1]]]
        ELSE IF over
        THEN [result |-> "RateLimited",
              actions |-> [a0 EXCEPT ![player_id] =
                             [h1 EXCEPT !.suspicious_activity_count = @ + 1]]]
        ELSE [result |-> IF flagged THEN "Flagged" ELSE "Approved",
              actions |-> [a0 EXCEPT ![player_id] = h2]]

validate_resource_collection_counts_first(actions, player_id, amount, current_time) ==
    ResourceVariant(actions, player_id, amount, current_time, TRUE, FALSE, "at")

validate_resource_collection_rate_at_max(actions, player_id, amount, current_time) ==
    ResourceVariant(actions, player_id, amount, current_time, FALSE, TRUE, "at")

validate_resource_collection_never_flags(actions, player_id, amount, current_time) ==
    ResourceVariant(actions, player_id, amount, current_time, FALSE, FALSE, "never")

validate_resource_collection_flags_above(actions, player_id, amount, current_time) ==
    ResourceVariant(actions, player_id, amount, current_time, FALSE, FALSE, "above")

\* validate_resource_collection(player_id, amount) at current_time
validate_resource_collection(actions, player_id, amount, current_time) ==
    LET a0 == EntryOrInsert(actions, player_id)
        h0 == a0[player_id]
    IN  IF amount > MaxResourceGainPerAction
        THEN [result |-> "Rejected",
              actions |-> [a0 EXCEPT ![player_id].suspicious_activity_count = @ + 1]]
        ELSE
          LET time_since_last == SatSub(current_time, h0.last_resource_collection)
              h1 == IF time_since_last < 1
                    THEN [h0 EXCEPT !.actions_per_second = @ + 1]
                    ELSE [h0 EXCEPT !.actions_per_second = 1]
          IN  IF h1.actions_per_second > MaxActionsPerSecond
              THEN [result |-> "RateLimited",
                    actions |-> [a0 EXCEPT ![player_id] =
                                   [h1 EXCEPT !.suspicious_activity_count = @ + 1]]]
              ELSE
                LET h2 == [h1 EXCEPT !.last_resource_collection = current_time]
                IN  [result |-> IF h2.suspicious_activity_count >= SuspiciousThreshold
                                THEN "Flagged" ELSE "Approved",
                     actions |-> [a0 EXCEPT ![player_id] = h2]]

\* validate_quest_completion that writes the timestamp before it compares
validate_quest_completion_stamps_rejected(actions, player_id, quest_id, current_time) ==
    LET a0 == EntryOrInsert(actions, player_id)
        h0 == a0[player_id]
        time_since_last == SatSub(current_time, h0.last_quest_completion)
        a1 == [a0 EXCEPT ![player_id].last_quest_completion = current_time]
    IN  IF time_since_last < MinTimeBetweenQuests
        THEN [result |-> "Rejected",
              actions |-> [a1 EXCEPT ![player_id].suspicious_activity_count = @ + 1]]
        ELSE [result |-> "Approved", actions |-> a1]

\* validate_quest_completion(player_id, quest_id) at current_time
validate_quest_completion(actions, player_id, quest_id, current_time) ==
    LET a0 == EntryOrInsert(actions, player_id)
        h0 == a0[player_id]
        time_since_last == SatSub(current_time, h0.last_quest_completion)
    IN  IF time_since_last < MinTimeBetweenQuests
        THEN [result |-> "Rejected",
              actions |-> [a0 EXCEPT ![player_id].suspicious_activity_count = @ + 1]]
        ELSE [result |-> "Approved",
              actions |-> [a0 EXCEPT ![player_id].last_quest_completion = current_time]]

\* validate_level_up with the penalty of the other validators
validate_level_up_penalty_one(actions, player_id, old_level, new_level, current_time) ==
    LET level_jump == SatSub(new_level, old_level)
    IN  IF level_jump > MaxLevelJumps
        THEN [result |-> "Rejected",
              actions |-> IF player_id \in DOMAIN actions
                          THEN [actions EXCEPT ![player_id].suspicious_activity_count =
                                                  @ + 1]
                          ELSE actions]
        ELSE [result |-> "Approved",
              actions |-> IF player_id \in DOMAIN actions
                          THEN [actions EXCEPT ![player_id].last_level_up = current_time]
                          ELSE actions]

\* validate_level_up(player_id, old_level, new_level) at current_time
validate_level_up(actions, player_id, old_level, new_level, current_time) ==
    LET level_jump == SatSub(new_level, old_level)
    IN  IF level_jump > MaxLevelJumps
        THEN [result |-> "Rejected",
              actions |-> IF player_id \in DOMAIN actions
                          THEN [actions EXCEPT ![player_id].suspicious_activity_count =
                                                  @ + LevelJumpPenalty]
                          ELSE actions]
        ELSE [result |-> "Approved",
              actions |-> IF player_id \in DOMAIN actions
                          THEN [actions EXCEPT ![player_id].last_level_up = current_time]
                          ELSE actions]

\* get_player_status with is_flagged compared like is_rate_limited
get_player_status_flags_above(actions, player_id) ==
    IF player_id \in DOMAIN actions
    THEN LET history == actions[player_id]
         IN  [some |-> TRUE,
              player_id |-> player_id,
              suspicious_activity_count |-> history.suspicious_activity_count,
              actions_per_second |-> history.actions_per_second,
              is_flagged |-> history.suspicious_activity_count > SuspiciousThreshold,
              is_rate_limited |-> history.actions_per_second > MaxActionsPerSecond]
    ELSE [some |-> FALSE]

\* get_player_status(player_id)
get_player_status(actions, player_id) ==
    IF player_id \in DOMAIN actions
    THEN LET history == actions[player_id]
         IN  [some |-> TRUE,
              player_id |-> player_id,
              suspicious_activity_count |-> history.suspicious_activity_count,
              actions_per_second |-> history.actions_per_second,
              is_flagged |-> history.suspicious_activity_count >= SuspiciousThreshold,
              is_rate_limited |-> history.actions_per_second > MaxActionsPerSecond]
    ELSE [some |-> FALSE]

\* reset_player_security that clears the counters of every history
reset_player_security_clears_all(actions, player_id) ==
    IF player_id \in DOMAIN actions
    THEN [p \in DOMAIN actions |->
            [actions[p] EXCEPT !.suspicious_activity_count = 0,
                               !.actions_per_second = 0]]
    ELSE actions

\* reset_player_security(player_id)
reset_player_security(actions, player_id) ==
    IF player_id \in DOMAIN actions
    THEN [actions EXCEPT ![player_id].suspicious_activity_count = 0,
                         ![player_id].actions_per_second = 0]
    ELSE actions

\* u64::max
Max(a, b) == IF a >= b THEN a ELSE b

\* what security_cleanup's retain keeps
Retained(history, current_time) ==
    LET last_activity == Max(Max(history.last_resource_collection,
                                 history.last_quest_completion),
                             history.last_level_up)
    IN  SatSub(current_time, last_activity) < CleanupAge

\* security_cleanup; due: time.elapsed_seconds() as u64 % 300 == 0
security_cleanup(actions, due, current_time) ==
    IF due
    THEN [p \in {q \in DOMAIN actions : Retained(actions[q], current_time)} |->
            actions[p]]
    ELSE actions

NoVerdict(name) ==
    [op |-> name, player |-> 0, args |-> <<>>, result |-> "None",
     status |-> [some |-> FALSE]]

\* the counters of every history are within the caps
WithinCaps(actions) ==
    \A p \in DOMAIN actions :
       /\ actions[p].actions_per_second <= MaxActionsCounted
       /\ actions[p].suspicious_activity_count <= MaxSuspicion

\* the amounts, levels and clock steps the validators are exercised with
Amounts == {MaxResourceGainPerAction, MaxResourceGainPerAction + 1}

QuestIds == {1}

LevelUps == {<<1, 1 + MaxLevelJumps>>, <<1, 10>>, <<3, 1>>}

ValidateResourceCollection(p, amount) ==
    LET r == validate_resource_collection(player_actions, p, amount, timestamp)
    IN  /\ WithinCaps(r.actions)
        /\ player_actions' = r.actions
        /\ verdict' = [NoVerdict("validate_resource_collection") EXCEPT
                         !.player = p, !.args = <<amount>>, !.result = r.result]
        /\ last_call' = [last_call EXCEPT ![p] = timestamp]
        /\ UNCHANGED <<netVars, conVars, gameVars, timestamp, advances, approved_quest>>

ValidateQuestCompletion(p, quest_id) ==
    LET r == validate_quest_completion(player_actions, p, quest_id, timestamp)
    IN  /\ WithinCaps(r.actions)
        /\ player_actions' = r.actions
        /\ verdict' = [NoVerdict("validate_quest_completion") EXCEPT
                         !.player = p, !.args = <<quest_id>>, !.result = r.result]
        /\ approved_quest' = IF r.result = "Approved"
                             THEN [approved_quest EXCEPT ![p] = timestamp]
                             ELSE approved_quest
        /\ last_call' = [last_call EXCEPT ![p] = timestamp]
        /\ UNCHANGED <<netVars, conVars, gameVars, timestamp, advances>>

ValidateLevelUp(p, old_level, new_level) ==
    LET r == validate_level_up(player_actions, p, old_level, new_level, timestamp)
    IN  /\ WithinCaps(r.actions)
        /\ player_actions' = r.actions
        /\ verdict' = [NoVerdict("validate_level_up") EXCEPT
                         !.player = p, !.args = <<old_level, new_level>>,
                         !.result = r.result]
        /\ last_call' = [last_call EXCEPT ![p] = timestamp]
        /\ UNCHANGED <<netVars, conVars, gameVars, timestamp, advances, approved_quest>>

GetPlayerStatus(p) ==
    /\ verdict' = [NoVerdict("get_player_status") EXCEPT
                     !.player = p, !.status = get_player_status(player_actions, p)]
    /\ UNCHANGED <<netVars, conVars, gameVars, player_actions, timestamp, advances,
                   approved_quest, last_call>>

ResetPlayerSecurity(p) ==
    /\ player_actions' = reset_player_security(player_actions, p)
    /\ verdict' = [NoVerdict("reset_player_security") EXCEPT !.player = p]
    /\ UNCHANGED <<netVars, conVars, gameVars, timestamp, advances, approved_quest,
                   last_call>>

SecurityCleanup(due) ==
    /\ player_actions' = security_cleanup(player_actions, due, timestamp)
    /\ verdict' = [NoVerdict("security_cleanup") EXCEPT !.args = <<due>>]
    /\ UNCHANGED <<netVars, conVars, gameVars, timestamp, advances, approved_quest,
                   last_call>>

\* The wall clock moves on by d seconds.
AdvanceTime(d) ==
    /\ advances < MaxAdvances
    /\ advances' = advances + 1
    /\ timestamp' = timestamp + d
    /\ verdict' = NoVerdict("advance")
    /\ UNCHANGED <<netVars, conVars, gameVars, player_actions, approved_quest, last_call>>

\* ------------------------------------------------- the wire transform alone
\* network.rs:72-76, the bytes send_packet makes of the payload x
SendTransform(x) ==
    LET processed == ProcessedData(x)
    IN  /\ last' = [NoOp("send_transform") EXCEPT
                      !.input = <<x>>,
                      !.res = IF processed.ok THEN "Ok" ELSE "CompressionError",
                      !.wire = IF processed.ok
                               THEN <<[peer |-> 0, bytes |-> processed.val]>>
                               ELSE <<>>]
        /\ UNCHANGED <<secVars, conVars, gameVars, host, hostPeers, peer_rate_limits,
                       compression_enabled, stats, now, client, lifecycle,
                       accepted, sends>>

\* network.rs:146-162, the bytes process_events makes of the packet data
ReceiveTransform(data) ==
    /\ last' = [NoOp("receive_transform") EXCEPT
                  !.input = <<[type |-> "Receive", peer |-> 0, data |-> data]>>,
                  !.res = DecompressOutcome(data),
                  !.results = <<ReceivedData(data)>>]
    /\ UNCHANGED <<secVars, conVars, gameVars, host, hostPeers, peer_rate_limits,
                   compression_enabled, stats, now, client, lifecycle,
                   accepted, sends>>

\* ------------------------------------------------------ the codec, called
\* the messages the codec is exercised with: every variant, with empty strings,
\* strings that need escapes, and the least and greatest values of the
\* numeric fields
Strings == {<<>>, <<97>>, <<97, 32, 98>>, <<34>>, <<92>>, <<10>>, <<1>>, <<195, 169>>}

U32s == {<<0>>, <<1>>, <<4, 2>>, U32Max}

I64s ==
    {[neg |-> FALSE, digits |-> <<0>>], [neg |-> FALSE, digits |-> <<1>>],
     [neg |-> TRUE, digits |-> <<1>>], [neg |-> FALSE, digits |-> I64Max],
     [neg |-> TRUE, digits |-> I64MinMagnitude]}

\* 0.0, -0.0, 1.5, f32::MAX, f32::MIN, f32::MIN_POSITIVE, the least positive
\* subnormal, and the three values that are not finite
F32s ==
    {Finite(<<48, 46, 48>>), Finite(<<45, 48, 46, 48>>), Finite(<<49, 46, 53>>),
     Finite(<<51, 46, 52, 48, 50, 56, 50, 51, 53, 101, 51, 56>>), Finite(<<45, 51, 46, 52, 48, 50, 56, 50, 51, 53, 101, 51, 56>>),
     Finite(<<49, 46, 49, 55, 53, 52, 57, 52, 52, 101, 45, 51, 56>>), Finite(<<49, 101, 45, 52, 53>>),
     NaN, Infinity, NegInfinity}

Messages ==
    [tag : {"PlayerJoin"}, username : Strings]
    \cup [tag : {"PlayerLeave"}, player_id : U32s]
    \cup [tag : {"ResourceUpdate"}, player_id : U32s, resources : F32s]
    \cup [tag : {"QuestComplete"}, player_id : U32s, quest_id : U32s]
    \cup [tag : {"MapGenerate"}, seed : I64s]
    \cup [tag : {"Chat"}, player_id : U32s, message : Strings]
    \cup [tag : UnitVariants]

\* m.to_bytes()
ToBytes(m) ==
    LET e == to_bytes(m)
    IN  /\ last' = [NoOp("to_bytes") EXCEPT
                      !.input = <<m>>,
                      !.res = IF e.ok THEN "Ok" ELSE "SerializationError",
                      !.wire = IF e.ok THEN <<[peer |-> 0, bytes |-> e.val]>>
                               ELSE <<>>]
        /\ UNCHANGED <<secVars, conVars, gameVars, host, hostPeers, peer_rate_limits,
                       compression_enabled, stats, now, client, lifecycle,
                       accepted, sends>>

\* GameMessage::from_bytes(data)
FromBytes(data) ==
    /\ last' = [NoOp("from_bytes") EXCEPT
                  !.input = <<[type |-> "Receive", peer |-> 0, data |-> data]>>,
                  !.res = IF from_bytes(data).ok THEN "Ok"
                          ELSE "DeserializationError",
                  !.results = <<from_bytes(data)>>]
    /\ UNCHANGED <<secVars, conVars, gameVars, host, hostPeers, peer_rate_limits,
                   compression_enabled, stats, now, client, lifecycle,
                   accepted, sends>>

\* ------------------------------------------- SecurityManager, its callers
\* The methods take the RwLock around player_actions for their whole body.
\* A call is three steps of its thread: it enters the method (and reads the
\* clock, where the method does so before it asks for the lock), it gets the
\* guard and sees the map through it, and it runs the body on what it sees
\* and drops the guard on return.
\* player_actions.read() in get_player_status, .write() everywhere else
Mode(op) == IF op = "get_player_status" THEN "read" ELSE "write"

\* validate_resource_collection, validate_quest_completion and
\* security_cleanup call get_current_timestamp() before they ask for the lock
ReadsClockFirst(op) ==
    op \in {"validate_resource_collection", "validate_quest_completion",
            "security_cleanup"}

\* a lock that is never waited for
CanLock_unguarded(holders, t) == TRUE

\* a lock per player: only a call for the same player is waited for
CanLock_per_player(holders, t) ==
    \A h \in holders :
       \/ Mode(calls[h].op) = "read" /\ Mode(calls[t].op) = "read"
       \/ /\ calls[h].player # calls[t].player
          /\ calls[h].op # "security_cleanup"
          /\ calls[t].op # "security_cleanup"

\* RwLock: write() waits for every guard, read() for a write guard
CanLock(holders, t) ==
    IF Mode(calls[t].op) = "write" THEN holders = {}
    ELSE \A h \in holders : Mode(calls[h].op) = "read"

\* the body of the method op, run on the map actions
Apply(op, actions, player_id, args, current_time) ==
    CASE op = "validate_resource_collection" ->
           validate_resource_collection(actions, player_id, args[1], current_time)
      [] op = "validate_quest_completion" ->
           validate_quest_completion(actions, player_id, args[1], current_time)
      [] op = "validate_level_up" ->
           validate_level_up(actions, player_id, args[1], args[2], current_time)
      [] op = "reset_player_security" ->
           [result |-> "None", actions |-> reset_player_security(actions, player_id)]
      [] op = "security_cleanup" ->
           [result |-> "None", actions |-> security_cleanup(actions, TRUE, current_time)]
      [] OTHER -> [result |-> "None", actions |-> actions]

\* the clock value the body of t's call works with
TimeOf(t) ==
    IF ReadsClockFirst(calls[t].op) THEN calls[t].current_time ELSE timestamp

\* thread t enters the method op
Call(t, op, p, args) ==
    /\ calls[t].pc = "idle"
    /\ calls' = [calls EXCEPT ![t] =
                   [pc |-> "called", op |-> op, player |-> p, args |-> args,
                    current_time |-> IF ReadsClockFirst(op) THEN timestamp ELSE 0,
                    view |-> <<>>]]
    /\ UNCHANGED <<netVars, secVars, gameVars, lock>>

\* thread t gets the guard
Acquire(t) ==
    /\ calls[t].pc = "called"
    /\ CanLock(lock, t)
    /\ lock' = lock \cup {t}
    /\ calls' = [calls EXCEPT ![t].pc = "locked", ![t].view = player_actions]
    /\ UNCHANGED <<netVars, secVars, gameVars>>

\* a return that does not drop the guard
Release_keeps_guard(t) ==
    LET c == calls[t]
        r == Apply(c.op, c.view, c.player, c.args, TimeOf(t))
    IN  /\ c.pc = "locked"
        /\ player_actions' = IF Mode(c.op) = "write" THEN r.actions
                              ELSE player_actions
        /\ verdict' = [NoVerdict(c.op) EXCEPT
                         !.player = c.player, !.args = c.args, !.result = r.result,
                         !.status = IF c.op = "get_player_status"
                                    THEN get_player_status(c.view, c.player)
                                    ELSE [some |-> FALSE]]
        /\ approved_quest' =
             IF c.op = "validate_quest_completion" /\ r.result = "Approved"
             THEN [approved_quest EXCEPT ![c.player] = TimeOf(t)]
             ELSE approved_quest
        /\ last_call' = IF c.op \in {"validate_resource_collection",
                                       "validate_quest_completion",
                                       "validate_level_up"}
                         THEN [last_call EXCEPT ![c.player] = TimeOf(t)]
                         ELSE last_call
        /\ lock' = lock
        /\ calls' = [calls EXCEPT ![t] = NoCall]
        /\ UNCHANGED <<netVars, gameVars, timestamp, advances>>

\* thread t runs the body, returns and drops the guard
Release(t) ==
    LET c == calls[t]
        r == Apply(c.op, c.view, c.player, c.args, TimeOf(t))
    IN  /\ c.pc = "locked"
        /\ player_actions' = IF Mode(c.op) = "write" THEN r.actions
                              ELSE player_actions
        /\ verdict' = [NoVerdict(c.op) EXCEPT
                         !.player = c.player, !.args = c.args, !.result = r.result,
                         !.status = IF c.op = "get_player_status"
                                    THEN get_player_status(c.view, c.player)
                                    ELSE [some |-> FALSE]]
        /\ approved_quest' =
             IF c.op = "validate_quest_completion" /\ r.result = "Approved"
             THEN [approved_quest EXCEPT ![c.player] = TimeOf(t)]
             ELSE approved_quest
        /\ last_call' = IF c.op \in {"validate_resource_collection",
                                       "validate_quest_completion",
                                       "validate_level_up"}
                         THEN [last_call EXCEPT ![c.player] = TimeOf(t)]
                         ELSE last_call
        /\ lock' = lock \ {t}
        /\ calls' = [calls EXCEPT ![t] = NoCall]
        /\ UNCHANGED <<netVars, gameVars, timestamp, advances>>

\* ------------------------------------------------------ the idle progress
\* one run of the system update_idle_progress (systems.rs) on the player:
\* current_time is SystemTime::now() in seconds since the epoch
UpdateIdleProgress ==
    /\ Len(trail) < MaxTrail
    /\ progress' = update_idle_progress(progress, timestamp)
    /\ trail' = Append(trail, "update")
    /\ ret' = NoRet("update_idle_progress")
    /\ UNCHANGED <<netVars, secVars, conVars, slot, saved, cache, model,
                   generation_stats>>

\* tests/idle_progress.rs: p.last_update -= 1.0
Rewind ==
    /\ Len(trail) < MaxTrail
    /\ progress' = [progress EXCEPT !.last_update = @ - 1]
    /\ trail' = Append(trail, "rewind")
    /\ ret' = NoRet("rewind")
    /\ UNCHANGED <<netVars, secVars, conVars, slot, saved, cache, model,
                   generation_stats>>

\* --------------------------------------------------- the progress table
\* DatabaseConnection::save_progress(progress); executed: conn.execute
\* returned Ok
SaveProgress(p, executed) ==
    /\ slot' = IF executed THEN InsertOrReplace(slot, ProgressRow(p)) ELSE slot
    /\ saved' = IF executed THEN <<p>> ELSE saved
    /\ ret' = [NoRet("save_progress") EXCEPT
                 !.res = IF executed THEN "Ok" ELSE "SqliteFailure",
                 !.value = <<p>>]
    /\ UNCHANGED <<netVars, secVars, conVars, progress, trail, cache, model,
                   generation_stats>>

\* DatabaseConnection::load_progress()
LoadProgress ==
    /\ ret' = IF 1 \in DOMAIN slot
              THEN [NoRet("load_progress") EXCEPT
                      !.value = <<ProgressOfRow(slot[1])>>]
              ELSE [NoRet("load_progress") EXCEPT
                      !.res = "QueryReturnedNoRows"]
    /\ UNCHANGED <<netVars, secVars, conVars, progress, trail, slot, saved,
                   cache, model, generation_stats>>

\* ------------------------------------------------------- the map generator
\* the grid is 16 by 16: vec![vec![0; 16]; 16]
Side == 16

\* the cache is cut when it has more than 100 maps
CacheLimit == 100

\* grid[x][y] = tile
Put(grid, x, y, tile) == [grid EXCEPT ![x + 1][y + 1] = tile]

\* grid.iter().any(|row| row.contains(&tile))
Contains(grid, tile) ==
    \E x \in DOMAIN grid : \E y \in DOMAIN grid[x] : grid[x][y] = tile

\* the square of distance_from_center
DistSq(x, y) == (x - 8) * (x - 8) + (y - 8) * (y - 8)

\* base_tile: what the biome can make of the cell, as gen_bool falls
BaseTiles(biome, x, y) ==
    CASE biome = 0 -> {1, 0}
      [] biome = 1 -> {1, 2, 0}
      [] biome = 2 -> IF DistSq(x, y) > 36 THEN {1, 0} ELSE {0}
      [] OTHER -> {2, 0}

OnEdge(x, y) == x = 0 \/ x = Side - 1 \/ y = 0 \/ y = Side - 1

\* tile: a quest near the centre, a portal on an edge, or the base tile
Tiles(biome, x, y) ==
    (IF DistSq(x, y) < 4 THEN {3} ELSE {})
       \cup (IF OnEdge(x, y) THEN {4} ELSE {})
       \cup BaseTiles(biome, x, y)

\* The cells that are looked at: the centre, a corner, and a cell inside next
\* to the corner. Every other cell takes tile 0, which every biome allows.
Probes == {<<8, 8>>, <<0, 0>>, <<1, 1>>}

\* the values rng.gen_range(1..15) and rng.gen_range(4..12) are taken from:
\* the ends of the range and the centre
Spots == {1, 8, 14}

QuestSpots == {4, 8, 11}

\* the ways to give at most MaxTiles of the probes a tile
Placements(tiles) ==
    UNION {[cs -> tiles] : cs \in {c \in SUBSET Probes : Cardinality(c) <= MaxTiles}}

\* the grid with the tiles of placed and 0 elsewhere
Sparse(placed) ==
    [x \in 1..Side |-> [y \in 1..Side |->
        IF <<x - 1, y - 1>> \in DOMAIN placed THEN placed[<<x - 1, y - 1>>]
        ELSE 0]]

\* the grids the loop of generate_procedural makes in the biome
LoopGrids(biome) ==
    {Sparse(f) : f \in {g \in Placements(1..4) :
                          \A c \in DOMAIN g : g[c] \in Tiles(biome, c[1], c[2])}}

\* lines 174-176: a quest in the centre when the grid has none
WithCentreQuest(grid) ==
    IF ~Contains(grid, 3) THEN Put(grid, 8, 8, 3) ELSE grid

\* lines 177-179 and 227-231: a resource at (rx, ry) when the grid has none
WithResource(grid, rx, ry) ==
    IF ~Contains(grid, 1) THEN Put(grid, rx, ry, 1) ELSE grid

\* the maps generate_procedural can return: biome is rng.gen_range(0..4)
generate_procedural ==
    {WithResource(WithCentreQuest(grid), rx, ry) :
        grid \in UNION {LoopGrids(biome) : biome \in 0..3},
        rx \in Spots, ry \in Spots}

\* the grids tensor_to_grid makes of the output of the model: best_tile is
\* one of 0..3 in every cell
TensorGrids == {Sparse(f) : f \in Placements(1..3)}

\* lines 220-224: a quest at (qx, qy) when the grid has none
WithQuest(grid, qx, qy) ==
    IF ~Contains(grid, 3) THEN Put(grid, qx, qy, 3) ELSE grid

ensure_valid_map(grid, qx, qy, rx, ry) ==
    WithResource(WithQuest(grid, qx, qy), rx, ry)

\* the maps generate_with_ai can return
generate_with_ai ==
    {ensure_valid_map(grid, qx, qy, rx, ry) :
        grid \in TensorGrids, qx \in QuestSpots, qy \in QuestSpots,
        rx \in Spots, ry \in Spots}

\* self.cache.insert(seed, map.clone())
Inserted(maps, seed, map) ==
    [k \in DOMAIN maps \cup {seed} |-> IF k = seed THEN map ELSE maps[k]]

\* self.cache.remove(&oldest_key) when the cache is over its limit;
\* oldest_key is the first key the HashMap iterates
Trimmed(maps, oldest_key) ==
    IF Cardinality(DOMAIN maps) > CacheLimit
    THEN [k \in DOMAIN maps \ {oldest_key} |-> maps[k]]
    ELSE maps

\* MapGenerator::initialize_model(): load_pretrained_model returns Err in
\* every case, and the model stays None
InitializeModel ==
    /\ model' = model
    /\ ret' = NoRet("initialize_model")
    /\ UNCHANGED <<netVars, secVars, conVars, progress, trail, slot, saved,
                   cache, generation_stats>>

\* MapGenerator::generate_map(seed); map is what the generation makes when
\* the seed is not in the cache. The average time of the statistics is left
\* out.
GenerateMap(seed, map) ==
    /\ generation_stats.maps_generated + generation_stats.cache_hits < MaxMaps
    /\ map \in IF model = "Some" THEN generate_with_ai ELSE generate_procedural
    /\ IF seed \in DOMAIN cache
       THEN /\ generation_stats' = [generation_stats EXCEPT !.cache_hits = @ + 1]
            /\ ret' = [NoRet("generate_map") EXCEPT !.value = <<cache[seed]>>]
            /\ UNCHANGED cache
       ELSE /\ generation_stats' =
                 [generation_stats EXCEPT !.maps_generated = @ + 1]
            /\ \E oldest_key \in DOMAIN Inserted(cache, seed, map) :
                  cache' = Trimmed(Inserted(cache, seed, map), oldest_key)
            /\ ret' = [NoRet("generate_map") EXCEPT !.value = <<map>>]
    /\ UNCHANGED <<netVars, secVars, conVars, progress, trail, slot, saved,
                   model>>

\* ------------------------------------------- the poll cycle, turn by turn
\* process_events is entered; batch is what the transport has ready for the
\* cycle
PollBegin(batch) ==
    /\ last.op # "polling"
    /\ last' = [NoOp("polling") EXCEPT !.input = batch]
    /\ UNCHANGED <<secVars, conVars, gameVars, host, hostPeers, peer_rate_limits,
                   compression_enabled, stats, now, client, lifecycle,
                   accepted, sends>>

\* the state after the turn of the loop that handled event e with outcome r
Served(e, r) ==
    /\ hostPeers' = r.peers
    /\ peer_rate_limits' = r.limits
    /\ stats' = r.stats
    /\ lifecycle' = LifecycleAfter(lifecycle, <<e>>)
    /\ accepted' = [p \in PeerIds |->
                      IF e.peer = p /\ e.type \in {"Connect", "Disconnect"}
                      THEN NoAccepts ELSE accepted[p]]
    /\ last' = [last EXCEPT !.input = Tail(@), !.events = @ \o r.events]

\* host.service(0) returns Some(event): one turn of the while loop
PollServe ==
    /\ last.op = "polling"
    /\ last.input # <<>>
    /\ Served(Head(last.input), process_events(<<Head(last.input)>>))
    /\ UNCHANGED <<secVars, conVars, gameVars, host, compression_enabled, now,
                   client, sends>>

\* host.service(0) returns None, or there is no host: process_events returns
\* its events, and process_network_events dispatches them
PollEnd ==
    /\ last.op = "polling"
    /\ last.input = <<>>
    /\ last' = [NoOp("poll") EXCEPT !.events = last.events,
                                    !.handled = DispatchAll(last.events)]
    /\ UNCHANGED <<secVars, conVars, gameVars, host, hostPeers, peer_rate_limits,
                   compression_enabled, stats, now, client, lifecycle,
                   accepted, sends>>

\* --------------------------------------------------------- specifications
\* the events ready at a poll, with at most received Receive events among them
Ready(received) ==
    Batches(hostPeers, IF host = "Some" THEN MaxPending ELSE 0, received)

\* a poll that finds at most one lifecycle event ready
ReadyOne ==
    Batches(hostPeers, IF host = "Some" THEN 1 ELSE 0, 0)

\* The send side: the clock, reliable sends and broadcasts, limits, and peers
\* that connect and disconnect one event at a poll.
Next ==
    \/ Tick
    \/ \E bound \in BOOLEAN : Initialize(bound)
    \/ \E batch \in ReadyOne : ProcessNetworkEvents(batch)
    \/ \E p \in PeerIds, packetOk \in BOOLEAN :
          Send(p, PingBytes, TRUE, packetOk)
    \/ \E order \in Orders(DOMAIN peer_rate_limits),
          packetOk \in [DOMAIN peer_rate_limits -> BOOLEAN] :
          Broadcast(order, PingBytes, TRUE, packetOk)
    \/ \E p \in PeerIds, max \in Rates : SetPeerRateLimit(p, max)

Spec == Init /\ [][Next]_vars

\* The lifecycle: polls that find several lifecycle events ready, the clock,
\* and reliable sends.
NextLifecycle ==
    \/ Tick
    \/ \E bound \in BOOLEAN : Initialize(bound)
    \/ \E batch \in Ready(0) : ProcessNetworkEvents(batch)
    \/ \E p \in PeerIds, packetOk \in BOOLEAN :
          Send(p, PingBytes, TRUE, packetOk)

SpecLifecycle == Init /\ [][NextLifecycle]_vars

\* The receive side: every kind of event, and limits.
NextReceive ==
    \/ \E bound \in BOOLEAN : Initialize(bound)
    \/ \E batch \in Ready(MaxReceived - stats.packets_received) :
          ProcessNetworkEvents(batch)
    \/ \E p \in PeerIds, max \in Rates : SetPeerRateLimit(p, max)

SpecReceive == Init /\ [][NextReceive]_vars

\* The manager beside the stand-alone client and server programs.
NextRoles ==
    \/ \E bound \in BOOLEAN : Initialize(bound)
    \/ \E batch \in Ready(0) : ProcessNetworkEvents(batch)
    \/ \E p \in PeerIds, reliable, packetOk \in BOOLEAN :
          Send(p, PingBytes, reliable, packetOk)
    \/ \E order \in Orders(DOMAIN peer_rate_limits), reliable \in BOOLEAN,
          packetOk \in [DOMAIN peer_rate_limits -> BOOLEAN] :
          Broadcast(order, PingBytes, reliable, packetOk)
    \/ \E connected \in BOOLEAN : NetConnect(connected)
    \/ \E event \in ClientEvents : NetService(event)
    \/ NetPing
    \/ \E event \in ServerEvents : ServerService(event)

SpecRoles == Init /\ [][NextRoles]_vars

\* The validators: every operation of SecurityManager, and a wall clock that
\* moves by a second or by the quest interval.
ClockSteps == {1, MinTimeBetweenQuests}

OnePlayer == {1}

NextSecurity ==
    \/ \E p \in OnePlayer, amount \in Amounts : ValidateResourceCollection(p, amount)
    \/ \E p \in OnePlayer, q \in QuestIds : ValidateQuestCompletion(p, q)
    \/ \E p \in OnePlayer, l \in LevelUps : ValidateLevelUp(p, l[1], l[2])
    \/ \E p \in OnePlayer : GetPlayerStatus(p)
    \/ \E p \in OnePlayer : ResetPlayerSecurity(p)
    \/ \E due \in BOOLEAN : SecurityCleanup(due)
    \/ \E d \in ClockSteps : AdvanceTime(d)

SpecSecurity == Init /\ [][NextSecurity]_vars

\* Two players and one second of the wall clock: the validators and the reset
\* called for either player, with counters kept below the caps of the pair.
PairCaps(actions) ==
    \A p \in DOMAIN actions :
       /\ actions[p].actions_per_second <= MaxPairActions
       /\ actions[p].suspicious_activity_count <= MaxPairSuspicion

NextPlayers ==
    \/ \E p \in PlayerIds, amount \in Amounts :
          ValidateResourceCollection(p, amount) /\ PairCaps(player_actions')
    \/ \E p \in PlayerIds, q \in QuestIds :
          ValidateQuestCompletion(p, q) /\ PairCaps(player_actions')
    \/ \E p \in PlayerIds, l \in LevelUps :
          ValidateLevelUp(p, l[1], l[2]) /\ PairCaps(player_actions')
    \/ \E p \in PlayerIds : ResetPlayerSecurity(p)

SpecPlayers == Init /\ [][NextPlayers]_vars

\* The periodic cleanup next to the validators of one player, with a wall
\* clock that moves by a second and by an hour, give or take a second.
CleanupSteps == {1, CleanupAge - 1, CleanupAge}

NextCleanup ==
    \/ \E p \in OnePlayer, amount \in Amounts :
          ValidateResourceCollection(p, amount) /\ PairCaps(player_actions')
    \/ \E p \in OnePlayer, q \in QuestIds :
          ValidateQuestCompletion(p, q) /\ PairCaps(player_actions')
    \/ \E p \in OnePlayer, l \in LevelUps :
          ValidateLevelUp(p, l[1], l[2]) /\ PairCaps(player_actions')
    \/ \E due \in BOOLEAN : SecurityCleanup(due)
    \/ \E d \in CleanupSteps : AdvanceTime(d)

SpecCleanup == Init /\ [][NextCleanup]_vars

\* The message codec: a message is encoded, and the bytes that came out are
\* decoded.
NextCodec ==
    \/ \E m \in Messages : ToBytes(m)
    \/ /\ last.op = "to_bytes"
       /\ \E i \in DOMAIN last.wire : FromBytes(last.wire[i].bytes)

SpecCodec == Init /\ [][NextCodec]_vars

\* The wire transform: a payload goes through the send side, and the bytes
\* that came out through the receive side.
NextWire ==
    \/ \E x \in TransformPayloads : SendTransform(x)
    \/ /\ last.op = "send_transform"
       /\ \E i \in DOMAIN last.wire : ReceiveTransform(last.wire[i].bytes)

SpecWire == Init /\ [][NextWire]_vars

\* The player of the test: the system runs, the test moves last_update back,
\* and the wall clock goes on by a second or by the 399 seconds that are one
\* short of the experience of level 2.
IdleSteps == {1, 399}

NextIdle ==
    \/ UpdateIdleProgress
    \/ Rewind
    \/ \E d \in IdleSteps : AdvanceTime(d)

SpecIdle == Init /\ [][NextIdle]_vars

\* The progress table: the progress of the test (42.0 resources, 7.0
\* experience, level 3), of a new player and of players at the levels around
\* 2^24 is saved and loaded.
SavedLevels == {1, 3, F32Significand - 1, F32Significand, F32Significand + 1,
                F32Significand + 2, F32Significand + 3}

SavedProgress ==
    {NewPlayer} \cup
    {[resources |-> r, experience |-> 70, level |-> l, last_update |-> 12345] :
        r \in {84, 85}, l \in SavedLevels}

NextStore ==
    \/ \E p \in SavedProgress, executed \in BOOLEAN : SaveProgress(p, executed)
    \/ LoadProgress

SpecStore == Init /\ [][NextStore]_vars

\* The map generator: the model is looked for, and maps are generated for
\* two seeds.
NextMap ==
    \/ InitializeModel
    \/ \E seed \in Seeds :
          \E map \in generate_procedural \cup generate_with_ai :
             GenerateMap(seed, map)

SpecMap == Init /\ [][NextMap]_vars

\* The transport next to the validator: peers that connect and disconnect
\* while resource collections of a player are validated and reset.
NextIdentity ==
    \/ \E bound \in BOOLEAN : Initialize(bound)
    \/ \E batch \in Ready(0) : ProcessNetworkEvents(batch)
    \/ \E p \in OnePlayer, amount \in Amounts :
          ValidateResourceCollection(p, amount) /\ PairCaps(player_actions')
    \/ \E p \in OnePlayer : ResetPlayerSecurity(p)

SpecIdentity == Init /\ [][NextIdentity]_vars

\* Two threads in the SecurityManager at once: the first calls for player 1,
\* the second for either player, within one second of the wall clock.
PlayersOf(t) == IF t = 1 THEN OnePlayer ELSE PlayerIds

NextConcurrent ==
    \/ \E t \in Threads : \E p \in PlayersOf(t), amount \in Amounts :
          Call(t, "validate_resource_collection", p, <<amount>>)
    \/ \E t \in Threads : \E p \in PlayersOf(t) :
          Call(t, "reset_player_security", p, <<>>)
    \/ \E t \in Threads : \E p \in PlayersOf(t) :
          Call(t, "get_player_status", p, <<>>)
    \/ \E t \in Threads : Call(t, "security_cleanup", 0, <<TRUE>>)
    \/ \E t \in Threads : Acquire(t)
    \/ \E t \in Threads : Release(t) /\ PairCaps(player_actions')

SpecConcurrent == Init /\ [][NextConcurrent]_vars

\* The callers of the SecurityManager and the poll loop, under a fair
\* scheduler. A validate_* call is made only while the counters of its player
\* have room for it and for the calls under way. The methods of the
\* NetworkManager take &mut self: initialize does not run within a poll cycle.
UnderWay(p) ==
    {t \in Threads : /\ calls[t].pc # "idle"
                     /\ calls[t].player = p
                     /\ calls[t].op \in {"validate_resource_collection",
                                         "validate_quest_completion"}}

Headroom(p) ==
    IF p \in DOMAIN player_actions
    THEN /\ player_actions[p].actions_per_second + Cardinality(UnderWay(p))
               < MaxPairActions
         /\ player_actions[p].suspicious_activity_count + Cardinality(UnderWay(p))
               < MaxPairSuspicion
    ELSE Cardinality(UnderWay(p)) < MaxPairActions

NextLive ==
    \/ \E t \in Threads : \E p \in OnePlayer :
          Headroom(p) /\ Call(t, "validate_resource_collection", p,
                              <<MaxResourceGainPerAction>>)
    \/ \E t \in Threads : \E p \in OnePlayer :
          Call(t, "reset_player_security", p, <<>>)
    \/ \E t \in Threads : \E p \in OnePlayer :
          Call(t, "get_player_status", p, <<>>)
    \/ \E t \in Threads : Call(t, "security_cleanup", 0, <<TRUE>>)
    \/ \E t \in Threads : Acquire(t)
    \/ \E t \in Threads : Release(t)
    \/ last.op # "polling" /\ Initialize(TRUE)
    \/ \E batch \in ReadyOne : PollBegin(batch)
    \/ PollServe
    \/ PollEnd

\* A thread that holds a guard runs on to its return, and the thread of the
\* poll loop runs on: weak fairness. The RwLock of parking_lot hands the lock
\* to the threads that wait for it in turn, so that a thread that can get the
\* guard again and again does get it: strong fairness.
Fairness ==
    /\ \A t \in Threads : WF_vars(Release(t)) /\ SF_vars(Acquire(t))
    /\ WF_vars(PollServe)
    /\ WF_vars(PollEnd)

SpecLive == Init /\ [][NextLive]_vars /\ Fairness

\* ------------------------------------------------------------------ claims
Tracked == DOMAIN peer_rate_limits

WindowElapsed(p) == now - peer_rate_limits[p].last_reset >= TicksPerSecond

AtCap(p) ==
    peer_rate_limits[p].packets_sent >= peer_rate_limits[p].max_packets_per_second

\* the step is send_packet(p, ..)
SendStepTo(p) == last'.op = "send" /\ last'.peer = p

C2_AsStated ==
    [][\A p \in Tracked :
         (SendStepTo(p) /\ last'.res = "RateLimited") =>
           /\ peer_rate_limits'[p].packets_sent = peer_rate_limits[p].packets_sent
           /\ stats'.packets_sent = stats.packets_sent
           /\ stats'.bytes_sent = stats.bytes_sent
           /\ stats'.rate_limit_violations = stats.rate_limit_violations + 1
      ]_vars

\* C2, amended: a send rejected as RateLimited is never counted: the peer's
\* window count is not incremented (it is unchanged, or, when the window had
\* elapsed, reset to 0 with the window restarted now), no other peer's state
\* changes, packets_sent and bytes_sent do not increase, and
\* rate_limit_violations increases by exactly 1.
C2_RejectedNotCounted ==
    [][\A p \in PeerIds :
         (SendStepTo(p) /\ last'.res = "RateLimited") =>
           /\ p \in Tracked
           /\ peer_rate_limits' =
                [peer_rate_limits EXCEPT ![p] =
                   IF WindowElapsed(p)
                   THEN [@ EXCEPT !.packets_sent = 0, !.last_reset = now]
                   ELSE @]
           /\ stats' = [stats EXCEPT !.rate_limit_violations = @ + 1]
      ]_vars

\* a rejected send at a peer whose window is full
C2_Witness ==
    /\ last.op = "send" /\ last.res = "RateLimited"
    /\ last.peer \in Tracked
    /\ peer_rate_limits[last.peer].packets_sent = 1
    /\ peer_rate_limits[last.peer].max_packets_per_second = 1
    /\ stats.rate_limit_violations = 1

RECURSIVE SumSeq(_)
SumSeq(q) == IF q = <<>> THEN 0 ELSE Head(q) + SumSeq(Tail(q))

C4_AsStated == last.wire # <<>> => last.limited

\* C4, amended: every packet that NetworkManager hands to the transport
\* (send_packet, broadcast) has passed the limiter of its peer first: the peer
\* is tracked, the send was counted in its window, and the count is within its
\* limit.  The stand-alone client (net_ping) and server (the echo of main) send
\* on the ENet peer directly, with no limiter.
C4_ManagerSendsAreLimited ==
    [][last'.op \in {"send", "broadcast"} =>
         \A i \in DOMAIN last'.wire :
            LET p == last'.wire[i].peer
            IN  /\ last'.limited
                /\ p \in Tracked
                /\ peer_rate_limits'[p].packets_sent =
                     IF WindowElapsed(p) THEN 1
                     ELSE peer_rate_limits[p].packets_sent + 1
                /\ peer_rate_limits'[p].packets_sent
                     <= peer_rate_limits'[p].max_packets_per_second
      ]_vars

\* the manager has put a packet on the wire, while the client is connected and
\* so pings unlimited
C4_Witness ==
    /\ last.op = "send" /\ last.res = "Ok"
    /\ last.wire = <<[peer |-> last.peer, bytes |-> PingBytes]>>
    /\ peer_rate_limits[last.peer].packets_sent = 1
    /\ client.connected

\* the places of the events of kind type that batch holds for peer p
EventsOf(batch, type, p) ==
    {i \in DOMAIN batch : batch[i].type = type /\ batch[i].peer = p}

Emitted(events, type, p) ==
    {i \in DOMAIN events : events[i].type = type /\ events[i].peer_id = p}

NoLifecycleEvent(batch, p) ==
    EventsOf(batch, "Connect", p) \cup EventsOf(batch, "Disconnect", p) = {}

\* p's window is full all through the poll cycle that handles batch
FullAllCycle(batch, p) ==
    /\ p \in Tracked
    /\ AtCap(p) /\ ~WindowElapsed(p)
    /\ NoLifecycleEvent(batch, p)

\* C5 as stated: a packet received from a peer whose window is full is
\* rejected, with no DataReceived event, and is not counted.
C5_AsStated ==
    [][last'.op = "poll" =>
         /\ \A p \in PeerIds :
               FullAllCycle(last'.input, p) =>
                  Emitted(last'.events, "DataReceived", p) = {}
         /\ stats'.packets_received = stats.packets_received +
               Cardinality({i \in DOMAIN last'.input :
                              /\ last'.input[i].type = "Receive"
                              /\ ~FullAllCycle(last'.input, last'.input[i].peer)})
      ]_vars

\* C5, amended: the per-peer window cap applies to sends only.  Every received
\* packet, also one from a peer whose window is full, yields exactly one
\* DataReceived event and is counted in packets_received and bytes_received;
\* receiving leaves the sender's RateLimit as it was.
C5_ReceivesAreNotLimited ==
    [][last'.op = "poll" =>
         LET in == last'.input
             receives == {i \in DOMAIN in : in[i].type = "Receive"}
         IN  /\ Len(last'.events) = Len(in)
             /\ \A i \in receives :
                   /\ last'.events[i].type = "DataReceived"
                   /\ last'.events[i].peer_id = in[i].peer
             /\ stats'.packets_received = stats.packets_received + Cardinality(receives)
             /\ stats'.bytes_received = stats.bytes_received
                   + SumSeq([i \in DOMAIN in |->
                               IF i \in receives THEN Len(in[i].data) ELSE 0])
             /\ \A p \in Tracked :
                   NoLifecycleEvent(in, p) =>
                      p \in DOMAIN peer_rate_limits'
                      /\ peer_rate_limits'[p] = peer_rate_limits[p]
      ]_vars

\* a packet of a peer whose window is full (limit 0) was delivered
C5_Witness ==
    /\ last.op = "poll"
    /\ \E i \in DOMAIN last.input :
          /\ last.input[i].type = "Receive"
          /\ FullAllCycle(last.input, last.input[i].peer)
          /\ last.events[i] = [type |-> "DataReceived",
                               peer_id |-> last.input[i].peer, data |-> PingBytes]
          /\ stats.packets_received = 1

\* C6 as stated: a send to a peer id the transport does not know fails with
\* PeerNotFound, creates no RateLimitState for the id and does not increase
\* packets_sent or bytes_sent.
C6_AsStated ==
    [][\A p \in PeerIds \ hostPeers :
         SendStepTo(p) =>
           /\ last'.res = "PeerNotFound"
           /\ p \notin DOMAIN peer_rate_limits'
           /\ stats'.packets_sent = stats.packets_sent
           /\ stats'.bytes_sent = stats.bytes_sent
      ]_vars

\* C6, amended: a send to a peer id the transport does not know never succeeds
\* and is never RateLimited: it fails with PeerNotFound, or, by the two checks
\* that come before the peer lookup, with NotInitialized when the manager has
\* no host and PacketFailed when the packet cannot be created.  It creates no
\* RateLimitState, changes no counter and puts nothing on the wire.
C6_UnknownPeerNeverSent ==
    [][\A p \in PeerIds \ hostPeers :
         SendStepTo(p) =>
           /\ last'.res \in {"PeerNotFound", "NotInitialized", "PacketFailed"}
           /\ (last'.res = "NotInitialized") <=> (host = "None")
           /\ peer_rate_limits' = peer_rate_limits
           /\ p \notin DOMAIN peer_rate_limits'
           /\ stats' = stats
           /\ last'.wire = <<>>
      ]_vars

\* PeerNotFound for an unknown peer while another peer is connected
C6_Witness ==
    /\ last.op = "send" /\ last.res = "PeerNotFound"
    /\ host = "Some"
    /\ last.peer \notin hostPeers
    /\ hostPeers # {}

\* C7: broadcast makes exactly one send to every tracked peer, each with the
\* result a send of its own would have, whatever the results of the sends
\* before it in the loop, and broadcast returns success.
C7_BroadcastReachesAll ==
    [][last'.op = "broadcast" =>
         LET rs == last'.results
         IN  /\ last'.res = "Ok"
             /\ Len(rs) = Cardinality(Tracked)
             /\ {rs[i].peer : i \in DOMAIN rs} = Tracked
             /\ sends' = sends + Cardinality(Tracked)
             /\ \A i \in DOMAIN rs :
                   (rs[i].res = "RateLimited") <=>
                      IF WindowElapsed(rs[i].peer)
                      THEN peer_rate_limits[rs[i].peer].max_packets_per_second = 0
                      ELSE AtCap(rs[i].peer)
      ]_vars

\* the first send of a broadcast was rejected and the second delivered
C7_Witness ==
    /\ last.op = "broadcast" /\ last.res = "Ok"
    /\ Len(last.results) = 2
    /\ last.results[1].res = "RateLimited"
    /\ last.results[2].res = "Ok"
    /\ Len(last.wire) = 1

\* C8: set_peer_rate_limit(p, max) on a tracked peer changes only that peer's
\* max_packets_per_second, to max; on an untracked peer it changes nothing and
\* creates no entry; it reports no error.
C8_SetLimitFrame ==
    [][\A p \in PeerIds :
         (last'.op = "set_peer_rate_limit" /\ last'.peer = p) =>
           /\ last'.res = "Ok"
           /\ peer_rate_limits' =
                IF p \in Tracked
                THEN [peer_rate_limits EXCEPT ![p].max_packets_per_second = last'.max]
                ELSE peer_rate_limits
           /\ UNCHANGED <<host, hostPeers, stats, compression_enabled, now>>
      ]_vars

\* the limit of a peer with a send in its window was lowered to 1 beside
\* another tracked peer
C8_Witness ==
    /\ last.op = "set_peer_rate_limit" /\ last.max = 1
    /\ Tracked = PeerIds
    /\ peer_rate_limits[last.peer].packets_sent = 1
    /\ peer_rate_limits[last.peer].max_packets_per_second = 1
    /\ \E q \in Tracked : peer_rate_limits[q].max_packets_per_second = DefaultMaxPackets

\* p's last lifecycle event in batch is a Connect
ConnectsLast(batch, p) ==
    /\ EventsOf(batch, "Connect", p) # {}
    /\ \A i \in EventsOf(batch, "Disconnect", p) :
          \E j \in EventsOf(batch, "Connect", p) : j > i

\* C9: the peers with a RateLimitState are the peers whose most recent
\* lifecycle event is Connect; a poll cycle emits one PeerConnected per Connect
\* and one PeerDisconnected per Disconnect, and a peer it leaves connected by
\* a Connect has the fresh state (count 0, window starting now, limit 10).
C9_TrackedIffConnected ==
    /\ Tracked = lifecycle
    /\ last.op = "poll" =>
         \A p \in PeerIds :
            /\ Cardinality(Emitted(last.events, "PeerConnected", p))
                 = Cardinality(EventsOf(last.input, "Connect", p))
            /\ Cardinality(Emitted(last.events, "PeerDisconnected", p))
                 = Cardinality(EventsOf(last.input, "Disconnect", p))
            /\ ConnectsLast(last.input, p) =>
                 /\ p \in Tracked
                 /\ peer_rate_limits[p] =
                      [packets_sent |-> 0, last_reset |-> now,
                       max_packets_per_second |-> DefaultMaxPackets]

\* a peer disconnected and reconnected in one poll cycle, one second on
C9_Witness ==
    /\ last.op = "poll"
    /\ now = TicksPerSecond
    /\ \E p \in PeerIds :
          /\ last.input = <<[type |-> "Disconnect", peer |-> p, data |-> <<>>],
                            [type |-> "Connect", peer |-> p, data |-> <<>>]>>
          /\ p \in Tracked
          /\ stats.packets_sent > 0

\* indices of the Receive events of batch whose bytes, decompressed as the
\* receive path decompresses them, are not a GameMessage
Undecodable(batch) ==
    {i \in DOMAIN batch :
        /\ batch[i].type = "Receive"
        /\ ~ from_bytes(ReceivedData(batch[i].data)).ok}

\* C10 as stated: a received packet whose bytes are not a GameMessage produces
\* no DataReceived event.
C10_AsStated ==
    last.op = "poll" =>
       \A i \in Undecodable(last.input) :
          ~ \E j \in DOMAIN last.events :
               /\ last.events[j].type = "DataReceived"
               /\ last.events[j].peer_id = last.input[i].peer
               /\ last.events[j].data = ReceivedData(last.input[i].data)

\* C10, amended: a received packet whose bytes are not a GameMessage still
\* produces its DataReceived event, carrying the bytes; the failure to parse
\* is logged where the event is dispatched and has no other effect: every
\* event of the cycle, the ones after it included, is handled as it would be
\* alone.
C10_ParseFailureOnlyLogged ==
    last.op = "poll" =>
       /\ Len(last.events) = Len(last.input)
       /\ Len(last.handled) = Len(last.events)
       /\ \A i \in DOMAIN last.handled : last.handled[i] = Dispatch(last.events[i])
       /\ \A i \in Undecodable(last.input) :
             /\ last.events[i] = [type |-> "DataReceived",
                                  peer_id |-> last.input[i].peer,
                                  data |-> ReceivedData(last.input[i].data)]
             /\ last.handled[i].did = "parse failure logged"
             /\ stats.packets_received >= 1

\* a cycle that received malformed bytes from one peer and then a Ping from
\* the other
C10_Witness ==
    /\ last.op = "poll"
    /\ Len(last.input) = 2
    /\ Undecodable(last.input) = {1}
    /\ last.input[1].data = MalformedBytes
    /\ last.input[2].type = "Receive"
    /\ last.input[2].peer # last.input[1].peer
    /\ last.handled[1].did = "parse failure logged"
    /\ last.handled[2].did = "message"

\* the NetworkEvent process_events pushes for a transport event
EventFor(e) ==
    CASE e.type = "Connect" ->
           [type |-> "PeerConnected", peer_id |-> e.peer, data |-> <<>>]
      [] e.type = "Disconnect" ->
           [type |-> "PeerDisconnected", peer_id |-> e.peer, data |-> <<>>]
      [] e.type = "Receive" ->
           [type |-> "DataReceived", peer_id |-> e.peer,
            data |-> ReceivedData(e.data)]

\* the events of batch that are p's, in their order
InputOf(batch, p) ==
    LET mine(e) == e.peer = p IN SelectSeq(batch, mine)

\* the events process_events returned that are p's, in their order
OutputOf(events, p) ==
    LET mine(e) == e.peer_id = p IN SelectSeq(events, mine)

\* C11: one poll cycle drains every ready transport event: it returns one
\* event for each, and for each peer its Connect / Receive / Disconnect events
\* come out in the order the transport delivered them, none duplicated,
\* dropped or reordered.
C11_DrainsInOrder ==
    last.op = "poll" =>
       /\ Len(last.events) = Len(last.input)
       /\ \A p \in PeerIds :
             LET served == InputOf(last.input, p)
                 out == OutputOf(last.events, p)
             IN  /\ Len(out) = Len(served)
                 /\ \A i \in DOMAIN served : out[i] = EventFor(served[i])

\* a cycle in which one peer sent a packet and then disconnected
C11_Witness ==
    /\ last.op = "poll"
    /\ \E p \in PeerIds :
          /\ Len(InputOf(last.input, p)) = 2
          /\ last.input[1].type = "Receive"
          /\ last.input[2].type = "Disconnect"
          /\ OutputOf(last.events, p)[1].type = "DataReceived"
          /\ OutputOf(last.events, p)[2].type = "PeerDisconnected"


\* ------------------------------------------- claims, errors of the transport
\* the fields of NetworkManager
Manager == <<host, hostPeers, peer_rate_limits, compression_enabled, stats>>

\* C33: transport errors are returned to the caller and never end the poll
\* loop: an initialize that fails to bind returns the failure and leaves the
\* manager without a host; while the manager has no host every send returns
\* an error and every poll cycle returns an empty event sequence, and neither
\* changes the manager.
C33_SurvivesBindFailure ==
    [][/\ (last'.op = "initialize" /\ last'.res # "Ok") =>
             /\ last'.res = "BindFailure"
             /\ host' = "None"
             /\ Manager' = Manager
       /\ (host = "None" /\ last'.op = "send") =>
             /\ last'.res = "NotInitialized"
             /\ last'.wire = <<>>
             /\ Manager' = Manager
       /\ (host = "None" /\ last'.op = "poll") =>
             /\ last'.events = <<>>
             /\ last'.handled = <<>>
             /\ Manager' = Manager
      ]_vars

\* initialize failed to bind after two sends had failed for want of a host
C33_Witness ==
    /\ last.op = "initialize"
    /\ last.res = "BindFailure"
    /\ host = "None"
    /\ sends = MaxSends
    /\ stats.packets_sent = 0

\* the step is a send that failed for another reason than the rate limit
FailedSendStep ==
    /\ last'.op = "send"
    /\ last'.res \in {"PeerNotFound", "NotInitialized", "PacketFailed",
                      "CompressionError"}

\* C39 as stated: a send that returns an error for a reason other than rate
\* limiting (peer not found, network not initialised, packet creation
\* failure) leaves the state of the manager unchanged: the window count of
\* the peer is not consumed and packets_sent and bytes_sent are not
\* increased.
C39_AsStated ==
    [][FailedSendStep =>
         /\ peer_rate_limits' = peer_rate_limits
         /\ stats' = stats
      ]_vars

\* ------------------------------------------------ claims, the cap per peer
\* C38 as stated: in every state reachable by Connect and Disconnect events,
\* sends, broadcasts and set_peer_rate_limit calls, the window count of each
\* tracked peer is at most its max_packets_per_second.
C38_AsStated ==
    \A p \in DOMAIN peer_rate_limits :
        peer_rate_limits[p].packets_sent
            <= peer_rate_limits[p].max_packets_per_second

\* C38, amended: the window count of each tracked peer is at most its
\* max_packets_per_second, except after a set_peer_rate_limit call that sets
\* the limit below the count: from then on the count does not grow, and it is
\* above the limit until the window is reset or the limit is raised.
C38_CapUnlessLowered ==
    [][\A p \in DOMAIN peer_rate_limits' :
         LET new == peer_rate_limits'[p]
         IN  \/ new.packets_sent <= new.max_packets_per_second
             \/ /\ last'.op = "set_peer_rate_limit"
                /\ last'.peer = p
                /\ last'.max = new.max_packets_per_second
                /\ p \in DOMAIN peer_rate_limits
                /\ last'.max < peer_rate_limits[p].max_packets_per_second
                /\ new.packets_sent = peer_rate_limits[p].packets_sent
             \/ /\ p \in DOMAIN peer_rate_limits
                /\ peer_rate_limits[p].packets_sent
                     > peer_rate_limits[p].max_packets_per_second
                /\ new.packets_sent <= peer_rate_limits[p].packets_sent
      ]_vars

\* the limit of a peer was set below the two sends of its window
C38_Witness ==
    /\ last.op = "set_peer_rate_limit"
    /\ last.peer \in DOMAIN peer_rate_limits
    /\ peer_rate_limits[last.peer].packets_sent = MaxSends
    /\ peer_rate_limits[last.peer].max_packets_per_second = 1

\* the limiter map with the entry of p alone
Only(limits, p) == [q \in DOMAIN limits \cap {p} |-> limits[q]]

\* what the limiter says of a send to p, from the entry of p and the clock
OwnVerdict(p) == check_rate_limit(Only(peer_rate_limits, p), p, now)

\* C40: rate limiting is per peer: a send to a peer, accepted or rejected,
\* never changes the RateLimit of another peer, and whether a send to a peer
\* is refused as RateLimited depends on the RateLimit of that peer and the
\* clock alone, in send_packet and in every send of a broadcast.
C40_PerPeer ==
    [][/\ last'.op = "send" =>
             LET p == last'.peer
             IN  /\ DOMAIN peer_rate_limits' = DOMAIN peer_rate_limits
                 /\ \A q \in DOMAIN peer_rate_limits \ {p} :
                        peer_rate_limits'[q] = peer_rate_limits[q]
                 /\ last'.res = "RateLimited" <=> ~OwnVerdict(p).ok
                 /\ p \in DOMAIN peer_rate_limits =>
                        peer_rate_limits'[p] = OwnVerdict(p).limits[p]
       /\ last'.op = "broadcast" =>
             /\ DOMAIN peer_rate_limits' = DOMAIN peer_rate_limits
             /\ \A i \in DOMAIN last'.results :
                    LET p == last'.results[i].peer
                    IN  /\ last'.results[i].res = "RateLimited"
                              <=> ~OwnVerdict(p).ok
                        /\ peer_rate_limits'[p] = OwnVerdict(p).limits[p]
      ]_vars

\* a broadcast in which one peer was at its cap and the other peer was sent
\* the packet
C40_Witness ==
    /\ last.op = "broadcast"
    /\ \E i, j \in DOMAIN last.results :
          /\ last.results[i].res = "RateLimited"
          /\ last.results[j].res = "Ok"
          /\ peer_rate_limits[last.results[i].peer].packets_sent = 0
          /\ peer_rate_limits[last.results[j].peer].packets_sent = 1

\* ------------------------------------------------ claims, idle progress
\* the step is one run of update_idle_progress
IdleStep == trail' = Append(trail, "update")

\* C35 as stated: a run of update_idle_progress that covers d elapsed seconds
\* at level L credits L x 0.5 x d resources and 0.1 x d experience, and raises
\* the level, by one and with the experience back at 0, only when the
\* experience is at least L^2 x 10; a new player (level 1, resources 0,
\* last_update 0) that is ticked, moved back one second and ticked again has
\* resources >= 0.5 and is still at level 1.
C35_AsStated ==
    [][IdleStep =>
         LET d == timestamp - progress.last_update
             L == progress.level
         IN  /\ d > 0 =>
                   /\ progress'.resources
                         = F32(progress.resources + F32(L * F32(d)))
                   /\ progress'.level \in {L, L + 1}
                   /\ progress'.level = L + 1 =>
                         /\ progress'.experience = 0
                         /\ progress.experience + F32(d) >= L * L * 100
                   /\ progress'.level = L =>
                         progress'.experience = progress.experience + F32(d)
             /\ trail' = <<"update", "rewind", "update">> =>
                   /\ progress'.resources >= 1
                   /\ progress'.level = 1
      ]_vars

\* ---------------------------------------------- claims, the progress table
\* C36 as stated: the table has a single slot, and after any sequence of
\* save_progress calls load_progress returns the resources and the level of
\* the progress saved most recently.
C36_AsStated ==
    /\ DOMAIN slot \subseteq {1}
    /\ (ret.op = "load_progress" /\ saved # <<>>) =>
          /\ ret.res = "Ok"
          /\ ret.value[1].resources = saved[1].resources
          /\ ret.value[1].level = saved[1].level

\* ---------------------------------------------- claims, the map generator
\* C37 as stated: every map generate_map returns is a grid of 16 by 16 with
\* tile values in 0..4 that has at least one quest tile (3) and at least one
\* resource tile (1), whatever the seed and whatever the random choices of
\* the generation and of the post-processing.
C37_AsStated ==
    ret.op = "generate_map" =>
        LET grid == ret.value[1]
        IN  /\ Len(grid) = Side
            /\ \A x \in DOMAIN grid :
                  /\ Len(grid[x]) = Side
                  /\ \A y \in DOMAIN grid[x] : grid[x][y] \in 0..4
            /\ Contains(grid, 3)
            /\ Contains(grid, 1)

\* ------------------------------------------------------ claims, termination
\* C34: no operation blocks for ever. Under fair scheduling, with threads
\* that call validate_resource_collection, get_player_status,
\* reset_player_security and security_cleanup at once, every call returns in
\* the end (no deadlock on the lock of the validator); a poll cycle that has
\* begun returns, and it returns in the very step in which the transport has
\* no event ready.
C34_EveryCallReturns ==
    /\ \A t \in Threads : (calls[t].pc # "idle") ~> (calls[t].pc = "idle")
    /\ (last.op = "polling") ~> (last.op = "poll")
    /\ [][(last.op = "polling" /\ last.input = <<>> /\ last' # last)
             => last'.op = "poll"]_vars

\* a thread waits for the write guard that the other thread holds, while a
\* poll cycle that found a peer connecting is under way
C34_Witness ==
    /\ \E t, u \in Threads :
          /\ calls[t].pc = "locked"
          /\ Mode(calls[t].op) = "write"
          /\ calls[u].pc = "called"
          /\ Mode(calls[u].op) = "write"
    /\ last.op = "polling"
    /\ last.input # <<>>

\* --------------------------------------------------- claims, MessageCodec
\* the step decodes the bytes the step before it encoded
RoundTrip ==
    /\ last.op = "to_bytes"
    /\ last'.op = "from_bytes"
    /\ last'.input[1].data = last.wire[1].bytes

\* the message has no f32 field that is NaN or infinite
FiniteMessage(m) ==
    m.tag = "ResourceUpdate" => m.resources.class = "finite"

WireRoundTrip ==
    /\ last.op = "send_transform"
    /\ last'.op = "receive_transform"
    /\ last'.input[1].data = last.wire[1].bytes

\* the payload is sent as it is, and is a gzip stream the receive side opens
SentRawGzip(x) ==
    /\ Len(x) <= CompressThreshold
    /\ Len(x) > DecompressMinLen
    /\ decompress_data(x).ok

\* C30 as stated: the send-side compress step followed by the receive-side
\* decompress step applied to a payload x yields x, for payloads of the
\* lengths 0, 99, 100, 101 and 10000.
C30_AsStated ==
    [][(WireRoundTrip /\ Len(last.input[1]) \in PayloadLengths) =>
         last'.results[1] = last.input[1]
      ]_vars

\* C30, amended: the send-side compress step followed by the receive-side
\* decompress step applied to a payload x yields x, for payloads of the
\* lengths 0, 99, 100, 101 and 10000, those that start with the magic bytes
\* included, unless x is at most 100 bytes long and is itself a gzip stream:
\* such a payload is sent as it is and the receive side delivers its
\* decompressed content in its place.
C30_RoundTripUnlessGzip ==
    [][WireRoundTrip =>
         LET x == last.input[1]
         IN  IF SentRawGzip(x)
             THEN /\ last.wire[1].bytes = x
                  /\ last'.results[1] = decompress_data(x).val
                  /\ last'.results[1] # x
             ELSE last'.results[1] = x
      ]_vars

\* a payload of 10000 bytes went over the wire compressed and came back
C30_Witness ==
    /\ last.op = "receive_transform"
    /\ Len(last.results[1]) = MaxPayloadLen
    /\ Len(last.input[1].data) < MaxPayloadLen
    /\ last.input[1].data[1] = GzMagic0
    /\ last.results[1][1] = 120
    /\ last.results[1][MaxPayloadLen] = 121

\* the first two bytes of the packet are the magic header of gzip
HasMagic(data) == Len(data) >= 2 /\ data[1] = GzMagic0 /\ data[2] = GzMagic1

\* C31: on send, a payload is compressed only when its length is strictly
\* greater than 100 bytes (compression is enabled): a payload of 100 bytes or
\* fewer is put on the wire byte for byte, a longer one as its gzip stream.
C31_CompressedOnlyAboveThreshold ==
    last.op = "send_transform" =>
        LET x == last.input[1]
            w == last.wire[1].bytes
        IN  /\ compression_enabled
            /\ last.res = "Ok"
            /\ Len(x) <= CompressThreshold => w = x
            /\ Len(x) > CompressThreshold =>
                  /\ w = Gzip(x).val
                  /\ HasMagic(w)
                  /\ w # x

\* a payload of exactly 100 bytes was put on the wire as it is
C31_Witness ==
    /\ last.op = "send_transform"
    /\ Len(last.input[1]) = CompressThreshold
    /\ last.input[1][1] = 120
    /\ last.wire[1].bytes = last.input[1]

\* the step puts a packet through the receive side
ReceiveStep == last'.op = "receive_transform"

\* C32 as stated: on receive, decompression is attempted exactly when the
\* first two bytes of the packet are 0x1f 0x8b; in every other case the input
\* bytes are delivered unchanged, and when the attempt fails the original
\* bytes are delivered.
C32_AsStated ==
    [][ReceiveStep =>
         LET data == last'.input[1].data
         IN  /\ last'.res # "Raw" <=> HasMagic(data)
             /\ last'.res # "Decompressed" => last'.results[1] = data
      ]_vars

\* C32, amended: on receive, decompression is attempted exactly when the
\* packet is longer than 4 bytes and its first two bytes are 0x1f 0x8b; in
\* every other case the input bytes are delivered unchanged; when the attempt
\* fails the original bytes are delivered, and when it succeeds the
\* decompressed bytes.
C32_AttemptedOnLongMagic ==
    [][ReceiveStep =>
         LET data == last'.input[1].data
         IN  /\ last'.res # "Raw" <=>
                   (Len(data) > DecompressMinLen /\ HasMagic(data))
             /\ last'.res # "Decompressed" => last'.results[1] = data
             /\ last'.res = "Decompressed" =>
                   /\ decompress_data(data).ok
                   /\ last'.results[1] = decompress_data(data).val
             /\ last'.res = "DecompressionFailed" => ~decompress_data(data).ok
      ]_vars

\* a packet of 99 bytes that starts with the magic bytes and is no gzip
\* stream was delivered as it came
C32_Witness ==
    /\ last.op = "receive_transform"
    /\ last.res = "DecompressionFailed"
    /\ Len(last.input[1].data) = CompressThreshold - 1
    /\ HasMagic(last.input[1].data)
    /\ last.results[1] = last.input[1].data

\* ------------------------------------------------- claims, SecurityManager
TrackedPlayers == DOMAIN player_actions

\* p's history as a validator that inserts finds it
HistoryOrNew(p) ==
    IF p \in TrackedPlayers THEN player_actions[p] ELSE NewHistory

\* the step is a call of the validator op for player p
ValidateStep(op, p) == verdict'.op = op /\ verdict'.player = p

\* the step is validate_resource_collection(p, amount) with a valid amount
ValidCollection(p) ==
    /\ ValidateStep("validate_resource_collection", p)
    /\ verdict'.args[1] <= MaxResourceGainPerAction

\* C12: validate_resource_collection with amount > 1000 returns Rejected
\* whatever the player's history (none, rate-limited, flagged), adds exactly 1
\* to the suspicion count and leaves last_resource_collection and the
\* actions-per-second counter (and the rest of the history) unchanged.
C12_ExcessiveAmountRejected ==
    [][\A p \in PlayerIds :
         (/\ ValidateStep("validate_resource_collection", p)
          /\ verdict'.args[1] > MaxResourceGainPerAction) =>
            /\ verdict'.result = "Rejected"
            /\ p \in DOMAIN player_actions'
            /\ player_actions'[p] =
                 [HistoryOrNew(p) EXCEPT !.suspicious_activity_count = @ + 1]
      ]_vars

\* an excessive amount rejected for a player that is rate-limited and flagged
C12_Witness ==
    /\ verdict.op = "validate_resource_collection"
    /\ verdict.result = "Rejected"
    /\ verdict.args[1] > MaxResourceGainPerAction
    /\ player_actions[verdict.player].actions_per_second > MaxActionsPerSecond
    /\ player_actions[verdict.player].suspicious_activity_count > SuspiciousThreshold

\* what the actions-per-second counter of p becomes when a collection of p is
\* counted now
CountedNow(p) ==
    IF SatSub(timestamp, HistoryOrNew(p).last_resource_collection) < 1
    THEN HistoryOrNew(p).actions_per_second + 1
    ELSE 1

\* C13: a valid-amount collection of a player whose suspicion is below the
\* threshold is Approved, the first call of a new player included, as long as
\* the actions-per-second counter, counted within less than 1 s of the last
\* counted collection, does not exceed 10; once it does, each call returns
\* RateLimited, adds exactly 1 to the suspicion count and does not update
\* last_resource_collection.
C13_ApprovedUntilRateExceeded ==
    [][\A p \in PlayerIds :
         ValidCollection(p) =>
           /\ (/\ HistoryOrNew(p).suspicious_activity_count < SuspiciousThreshold
               /\ CountedNow(p) <= MaxActionsPerSecond) =>
                 /\ verdict'.result = "Approved"
                 /\ player_actions'[p] =
                      [HistoryOrNew(p) EXCEPT
                         !.actions_per_second = CountedNow(p),
                         !.last_resource_collection = timestamp]
           /\ CountedNow(p) > MaxActionsPerSecond =>
                 /\ verdict'.result = "RateLimited"
                 /\ player_actions'[p] =
                      [HistoryOrNew(p) EXCEPT
                         !.actions_per_second = CountedNow(p),
                         !.suspicious_activity_count = @ + 1]
      ]_vars

\* the second RateLimited call in a row, in the second of the ten Approved
C13_Witness ==
    /\ verdict.op = "validate_resource_collection"
    /\ verdict.result = "RateLimited"
    /\ player_actions[verdict.player].actions_per_second = MaxActionsPerSecond + 2
    /\ player_actions[verdict.player].suspicious_activity_count = 2
    /\ player_actions[verdict.player].last_resource_collection = timestamp

\* C14 as stated: with a valid amount, whenever the suspicion count after the
\* call's own increment is >= the threshold the result is Flagged, also where
\* the call would return RateLimited.
C14_AsStated ==
    [][\A p \in PlayerIds :
         (/\ ValidCollection(p)
          /\ player_actions'[p].suspicious_activity_count >= SuspiciousThreshold) =>
            verdict'.result = "Flagged"
      ]_vars

\* C14, amended: with a valid amount, whenever the suspicion count is >= the
\* threshold the result is Flagged in place of Approved; a call that exceeds
\* the action rate returns RateLimited also when the count, with the
\* increment this call makes, is >= the threshold.
C14_FlaggedOverridesApproved ==
    [][\A p \in PlayerIds :
         (/\ ValidCollection(p)
          /\ player_actions'[p].suspicious_activity_count >= SuspiciousThreshold) =>
            /\ verdict'.result =
                 IF CountedNow(p) > MaxActionsPerSecond THEN "RateLimited" ELSE "Flagged"
            /\ verdict'.result = "Flagged" =>
                 player_actions'[p].last_resource_collection = timestamp
      ]_vars

\* Flagged for a player exactly at the threshold and at the rate limit
C14_Witness ==
    /\ verdict.op = "validate_resource_collection"
    /\ verdict.result = "Flagged"
    /\ player_actions[verdict.player].suspicious_activity_count = SuspiciousThreshold
    /\ player_actions[verdict.player].actions_per_second = MaxActionsPerSecond

\* the history ten Rejected resource calls leave a new player with
AfterTenRejected ==
    [NewHistory EXCEPT !.suspicious_activity_count = SuspiciousThreshold]

C16_AsStated ==
    [][\A p \in TrackedPlayers :
         (/\ get_player_status(player_actions, p).is_flagged
          /\ ~ (verdict'.op = "reset_player_security" /\ verdict'.player = p)) =>
            /\ get_player_status(player_actions', p).some
            /\ get_player_status(player_actions', p).is_flagged
      ]_vars

\* the suspicion increment the result of a validator stands for
Penalty(op, result) ==
    CASE result \in {"Approved", "Flagged"} -> 0
      [] op = "validate_level_up" /\ result = "Rejected" -> LevelJumpPenalty
      [] OTHER -> 1

Validators ==
    {"validate_resource_collection", "validate_quest_completion",
     "validate_level_up"}

\* C17: the suspicion count of a tracked player never decreases except by
\* reset_player_security: a validate_* call for the player changes it by +1
\* (Rejected or RateLimited resource, Rejected quest), +5 (Rejected level-up)
\* or 0 (Approved, Flagged), and no other step but the reset changes it while
\* the player is tracked.
C17_SuspicionMonotonic ==
    [][\A p \in TrackedPlayers :
         p \in DOMAIN player_actions' =>
            LET before == player_actions[p].suspicious_activity_count
                after == player_actions'[p].suspicious_activity_count
            IN  IF verdict'.op = "reset_player_security" /\ verdict'.player = p
                THEN after = 0
                ELSE IF verdict'.op \in Validators /\ verdict'.player = p
                THEN after = before + Penalty(verdict'.op, verdict'.result)
                ELSE after = before
      ]_vars

\* a rejected level-up raised a count of 1 to 6
C17_Witness ==
    /\ verdict.op = "validate_level_up"
    /\ verdict.result = "Rejected"
    /\ verdict.player \in TrackedPlayers
    /\ player_actions[verdict.player].suspicious_activity_count = 1 + LevelJumpPenalty

\* C18: a validate_quest_completion call less than 5 s after the player's
\* last Approved completion is Rejected, adds 1 to the suspicion count and
\* does not update last_quest_completion; a call at least 5 s after it is
\* Approved and updates the timestamp, whatever was rejected in between.
C18_QuestInterval ==
    [][\A p \in PlayerIds :
         (/\ ValidateStep("validate_quest_completion", p)
          /\ approved_quest[p] > 0) =>
            IF timestamp - approved_quest[p] < MinTimeBetweenQuests
            THEN /\ verdict'.result = "Rejected"
                 /\ player_actions'[p] =
                      [HistoryOrNew(p) EXCEPT !.suspicious_activity_count = @ + 1]
                 /\ player_actions'[p].last_quest_completion = approved_quest[p]
            ELSE /\ verdict'.result = "Approved"
                 /\ player_actions'[p] =
                      [HistoryOrNew(p) EXCEPT !.last_quest_completion = timestamp]
      ]_vars

\* a completion Approved 5 s after the last Approved one, with a rejected
\* attempt in between
C18_Witness ==
    /\ verdict.op = "validate_quest_completion"
    /\ verdict.result = "Approved"
    /\ timestamp = BootTime + MinTimeBetweenQuests
    /\ player_actions[verdict.player].last_quest_completion = timestamp
    /\ player_actions[verdict.player].suspicious_activity_count = 1
    /\ player_actions[verdict.player].last_resource_collection = 0
    /\ player_actions[verdict.player].last_level_up = 0

\* C19 as stated: validate_level_up with new - old > 5 returns Rejected and
\* raises the player's suspicion count by exactly 5, for a player without a
\* history too; with new - old <= 5 it returns Approved and updates
\* last_level_up.
C19_AsStated ==
    [][\A p \in PlayerIds :
         ValidateStep("validate_level_up", p) =>
            IF SatSub(verdict'.args[2], verdict'.args[1]) > MaxLevelJumps
            THEN /\ verdict'.result = "Rejected"
                 /\ p \in DOMAIN player_actions'
                 /\ player_actions'[p].suspicious_activity_count =
                      HistoryOrNew(p).suspicious_activity_count + LevelJumpPenalty
            ELSE /\ verdict'.result = "Approved"
                 /\ p \in DOMAIN player_actions'
                 /\ player_actions'[p].last_level_up = timestamp
      ]_vars

\* C20 as stated: after any validate_resource_collection,
\* validate_quest_completion or validate_level_up call for player p returns,
\* p is tracked and get_player_status(p) is not None.
C20_AsStated ==
    verdict.op \in Validators =>
       /\ verdict.player \in TrackedPlayers
       /\ get_player_status(player_actions, verdict.player).some

\* C21: get_player_status(p) returns None exactly when p has no history;
\* otherwise it returns a snapshot of p's counters with is_flagged true iff
\* the suspicion count is >= suspicious_threshold and is_rate_limited true iff
\* actions_per_second > max_actions_per_second; the call modifies no state.
C21_StatusSnapshot ==
    [][\A p \in PlayerIds :
         (verdict'.op = "get_player_status" /\ verdict'.player = p) =>
            /\ UNCHANGED <<player_actions, timestamp, approved_quest>>
            /\ verdict'.status.some <=> p \in TrackedPlayers
            /\ p \in TrackedPlayers =>
                  LET history == player_actions[p]
                      status == verdict'.status
                  IN  /\ status.player_id = p
                      /\ status.suspicious_activity_count =
                           history.suspicious_activity_count
                      /\ status.actions_per_second = history.actions_per_second
                      /\ status.is_flagged <=>
                           (history.suspicious_activity_count >= SuspiciousThreshold)
                      /\ status.is_rate_limited <=>
                           (history.actions_per_second > MaxActionsPerSecond)
      ]_vars

\* a status taken at a suspicion count equal to the threshold and a rate
\* counter above the maximum
C21_Witness ==
    /\ verdict.op = "get_player_status"
    /\ verdict.status.some
    /\ verdict.status.suspicious_activity_count = SuspiciousThreshold
    /\ verdict.status.is_flagged
    /\ verdict.status.actions_per_second = MaxActionsPerSecond + 1
    /\ verdict.status.is_rate_limited

\* C22: reset_player_security(p) on a tracked player sets p's suspicion count
\* and actions-per-second counter to 0 and changes nothing else: p's three
\* timestamps are kept, p stays tracked and the other players' histories are
\* untouched; on an untracked player it does nothing and creates no entry.
C22_ResetFrame ==
    [][\A p \in PlayerIds :
         (verdict'.op = "reset_player_security" /\ verdict'.player = p) =>
            /\ DOMAIN player_actions' = TrackedPlayers
            /\ \A q \in TrackedPlayers \ {p} : player_actions'[q] = player_actions[q]
            /\ p \in TrackedPlayers =>
                  LET before == player_actions[p]
                      after == player_actions'[p]
                  IN  /\ after.suspicious_activity_count = 0
                      /\ after.actions_per_second = 0
                      /\ after.last_resource_collection =
                           before.last_resource_collection
                      /\ after.last_quest_completion = before.last_quest_completion
                      /\ after.last_level_up = before.last_level_up
            /\ UNCHANGED <<timestamp, approved_quest>>
      ]_vars

\* a reset of a player with all three timestamps written, next to another
\* player whose counters are not zero
C22_Witness ==
    /\ verdict.op = "reset_player_security"
    /\ verdict.player \in TrackedPlayers
    /\ LET history == player_actions[verdict.player]
       IN  /\ history.suspicious_activity_count = 0
           /\ history.actions_per_second = 0
           /\ history.last_resource_collection = BootTime
           /\ history.last_quest_completion = BootTime
           /\ history.last_level_up = BootTime
    /\ \E q \in TrackedPlayers \ {verdict.player} :
          /\ player_actions[q].suspicious_activity_count > 0
          /\ player_actions[q].actions_per_second > 0

\* the step is a run of security_cleanup at an elapsed time divisible by 300
CleanupStep == verdict'.op = "security_cleanup" /\ verdict'.args = <<TRUE>>

\* the most recent of the three timestamps of p's history
LastActivity(p) ==
    Max(Max(player_actions[p].last_resource_collection,
            player_actions[p].last_quest_completion),
        player_actions[p].last_level_up)

\* C23 as stated: cleanup evicts exactly the histories whose most recent
\* timestamp is more than 3600 s older than now, and leaves the others as
\* they are: one inactive for 3601 s is removed, one inactive for 3599 s (or
\* for exactly 3600 s) is retained.
C23_AsStated ==
    [][CleanupStep =>
         \A p \in TrackedPlayers :
            IF timestamp - LastActivity(p) > CleanupAge
            THEN p \notin DOMAIN player_actions'
            ELSE /\ p \in DOMAIN player_actions'
                 /\ player_actions'[p] = player_actions[p]
      ]_vars

\* C24 as stated: a history is removed by no step but the cleanup, and a
\* player for whom a validate_* call was made less than an hour ago, whatever
\* it returned, is still tracked with the same suspicion count after a
\* cleanup run.
C24_AsStated ==
    [][\A p \in TrackedPlayers :
         /\ verdict'.op # "security_cleanup" => p \in DOMAIN player_actions'
         /\ (/\ verdict'.op = "security_cleanup"
             /\ last_call[p] > 0
             /\ timestamp - last_call[p] < CleanupAge) =>
               /\ p \in DOMAIN player_actions'
               /\ player_actions'[p].suspicious_activity_count =
                    player_actions[p].suspicious_activity_count
      ]_vars


\* the map with no history but p's
Alone(p) == [q \in TrackedPlayers \cap {p} |-> player_actions[q]]

\* C26: the players' histories are independent: a validate_* or
\* reset_player_security call for p leaves every other player's history, and
\* whether the player is tracked, as it is, and its result and what it does to
\* p's history are what the same call at the same time returns and does when
\* p's history is the only one in the map.
C26_PlayersIndependent ==
    [][\A p \in PlayerIds :
         (/\ verdict'.op \in Validators \cup {"reset_player_security"}
          /\ verdict'.player = p) =>
            LET r == Apply(verdict'.op, Alone(p), p, verdict'.args, timestamp)
            IN  /\ DOMAIN player_actions' \ {p} = TrackedPlayers \ {p}
                /\ \A q \in TrackedPlayers \ {p} :
                      player_actions'[q] = player_actions[q]
                /\ verdict'.result = r.result
                /\ p \in DOMAIN player_actions' <=> p \in DOMAIN r.actions
                /\ p \in DOMAIN player_actions' =>
                      player_actions'[p] = r.actions[p]
      ]_vars

\* a first quest completion of one player is Approved in the second in which
\* the other player, with a completion and two rejections, would be Rejected
C26_Witness ==
    /\ verdict.op = "validate_quest_completion"
    /\ verdict.result = "Approved"
    /\ \E q \in TrackedPlayers \ {verdict.player} :
          /\ player_actions[q].last_quest_completion = timestamp
          /\ player_actions[q].suspicious_activity_count = 2


\* ------------------------------------------------ claims, the two id spaces
\* C28: peer ids and player ids are separate namespaces: a poll cycle, whatever
\* Connect and Disconnect events (a reconnection included) it handles, creates,
\* changes and removes no PlayerActionHistory, so a player's suspicion count is
\* the same after its connection drops and comes back; and no validator call
\* or reset changes what the transport knows of the peers.
C28_SeparateNamespaces ==
    [][/\ (\/ hostPeers' # hostPeers
           \/ peer_rate_limits' # peer_rate_limits
           \/ lifecycle' # lifecycle
           \/ last' # last) => UNCHANGED player_actions
       /\ player_actions' # player_actions =>
             UNCHANGED <<hostPeers, peer_rate_limits, lifecycle>>
      ]_vars

\* peer 1 dropped and came back in one poll cycle while player 1 has a
\* suspicion count of 2
C28_Witness ==
    /\ last.op = "poll"
    /\ Len(last.input) = 2
    /\ last.input[1].type = "Disconnect" /\ last.input[1].peer = 1
    /\ last.input[2].type = "Connect" /\ last.input[2].peer = 1
    /\ 1 \in TrackedPlayers
    /\ player_actions[1].suspicious_activity_count = 2

\* ------------------------------------------ claims, SecurityManager's lock
\* thread t is inside the body of a method, holding a guard
InBody(t) == calls[t].pc = "locked"

\* thread t has entered a method and waits for the lock
Waits(t) == calls[t].pc = "called" /\ ~ CanLock(lock, t)

\* thread t returns from its call in this step
Returns(t) == calls[t].pc = "locked" /\ calls'[t].pc = "idle"

\* C25: mutations of the histories are serialized: every validate_*,
\* reset_player_security and cleanup call that runs concurrently with others
\* acts, when it returns, as one atomic call on the map as it is at that
\* moment (with the clock value the call read), so the resulting histories and
\* the results are those of the calls run one after the other in the order
\* they return: no increment is lost and no call sees a map another call is
\* in the middle of changing.
C25_Serialized ==
    [][\A t \in Threads :
         Returns(t) =>
            LET c == calls[t]
                r == Apply(c.op, player_actions, c.player, c.args, TimeOf(t))
            IN  /\ c.view = player_actions
                /\ player_actions' = r.actions
                /\ verdict'.result = r.result
                /\ \A u \in Threads \ {t} :
                      InBody(u) =>
                         Mode(c.op) = "read" /\ Mode(calls[u].op) = "read"
      ]_vars

\* two calls that raise the suspicion count of the same player are in the
\* manager at once, one in its body and one waiting, after an earlier increment
C25_Witness ==
    \E t \in Threads, u \in Threads :
       /\ InBody(t) /\ Waits(u)
       /\ calls[t].op = "validate_resource_collection"
       /\ calls[u] = [calls[t] EXCEPT !.pc = "called", !.view = <<>>]
       /\ calls[t].args = <<MaxResourceGainPerAction + 1>>
       /\ calls[t].player = calls[u].player
       /\ calls[t].player \in TrackedPlayers
       /\ player_actions[calls[t].player].suspicious_activity_count = 1

\* C27 as stated: no reachable state has a validator call for one player
\* waiting for the lock while the lock is held by a call that concerns only a
\* different player.
C27_AsStated ==
    \A t \in Threads, h \in lock :
       ~ (/\ Waits(t)
          /\ calls[t].op # "security_cleanup"
          /\ calls[h].op # "security_cleanup"
          /\ calls[h].player # calls[t].player)

\* C27, amended: there is one lock around the whole map of histories. Calls
\* that change a history exclude each other whatever players they are for, so
\* at most one of them is inside a method body at a time, and a call for one
\* player may wait for a call for another; a waiting call waits only while
\* some other call is inside its body.
C27_OneLockForAllPlayers ==
    /\ \A t \in Threads, u \in Threads :
          (t # u /\ InBody(t) /\ InBody(u)) =>
             Mode(calls[t].op) = "read" /\ Mode(calls[u].op) = "read"
    /\ \A t \in Threads : Waits(t) => \E h \in Threads \ {t} : InBody(h)
    /\ lock = {t \in Threads : InBody(t)}

\* a call for player 1 waits while a call for player 2 holds the lock
C27_Witness ==
    \E t \in Threads, h \in lock :
       /\ Waits(t)
       /\ calls[t].op = "validate_resource_collection"
       /\ calls[t].player = 1
       /\ calls[h].op = "validate_resource_collection"
       /\ calls[h].player = 2

=============================================================================
